---------------------------- MODULE Spec2Model ----------------------------
(***************************************************************************)
(* WATCHKEEPER Testing Edition: the collection-and-analysis pipeline.      *)
(*                                                                         *)
(*   SpecEngine   AIProcessor._throttle_requests / _make_ollama_request    *)
(*                under several asyncio tasks, with a discrete clock       *)
(*   SpecFallback AIProcessor._fallback_analysis as a function of a text   *)
(*   SpecAnalyze  AIProcessor.analyze_article, one call, data view         *)
(*   SpecSweep    TestingCollectionManager.run_collection                  *)
(*   SpecSweepLive  the same with task cancellation, and with every        *)
(*                collect_from_source call and every sleep ending          *)
(*   SpecCollect  TestingCollectionManager.collect_from_source, one call,  *)
(*                article by article                                       *)
(*   SpecStatus   ThreatAnalyzer.update_threat_statuses over the threats   *)
(*                table, with a clock in days                              *)
(*   SpecStatusLive  the same, called again and again                      *)
(*   SpecEnrich   ThreatAnalyzer.classify_threat, called twice on a dict   *)
(*   SpecExtract  BaseCollector.extract_article_content on a page          *)
(*   SpecCollector BBCCollector.collect / ReutersCollector.collect         *)
(*   SpecGeo      AIProcessor.get_geolocation, one call                    *)
(*   SpecSocket   ConnectionManager under several connections and one      *)
(*                broadcast                                                *)
(*                                                                         *)
(* Time is in whole seconds, in the status view in whole days.             *)
(* Confidence scores are in hundredths (0.3 is 30, 1.0 is 100); the        *)
(* constants max_articles_per_source and max_articles are scaled down.     *)
(***************************************************************************)
EXTENDS Integers, Sequences, FiniteSets, TLC

VARIABLES
    \* ---- AIProcessor, timing view (ai_processor.py:35-113)
    now,                \* time.time()
    last_request_time,  \* AIProcessor.last_request_time
    cpc,                \* per task: "idle" | "sleeping" | "posting"
    wake,               \* per task: the time its asyncio.sleep may resume at
    ncalls,             \* per task: engine calls started
    dlog,               \* per task: the times of its last two dispatches
    outcome,            \* per task: how its last finished call ended
    \* ---- AIProcessor._fallback_analysis on its own (ai_processor.py:115-188)
    fb_text,            \* the text given to it
    fb_out,             \* the analysis it built
    \* ---- AIProcessor.analyze_article, data view (ai_processor.py:221-286)
    apc,                \* "idle" | "requesting" | "returned" | "raised"
    article_text,       \* its arguments
    source_name,
    behaviour,          \* what the inference service did with the request
    response,           \* what _make_ollama_request returned
    analysis,           \* what analyze_article returned
    \* ---- TestingCollectionManager.run_collection (news_collector.py:373-466)
    utcnow,             \* datetime.utcnow(), in steps of the sweep clock
    running,            \* TestingCollectionManager.running
    last_collection_time,
    db_sources,         \* the sources table: is_active, last_collected_at
    inv,                \* per run_collection call: where it is, its report
    collects,           \* per call and source: collect_from_source calls
    \* ---- TestingCollectionManager.collect_from_source, one call
    \*      (news_collector.py:51-371)
    cf_pc,              \* "start" | "articles" | "statistics" | "returned" | "raised"
    source_type,        \* Source.source_type of the source
    feed_left,          \* entries (links) the loop has still to handle
    articles_collected, \* the three locals of lines 64-66
    articles_processed,
    errors,
    handled,            \* per entry handled: what happened around it
    threats,            \* the threats table: the rows committed by the call
    tasks,              \* the broadcast tasks created (line 362)
    db_source,          \* the row of the source: its counters
    cf_result,          \* the dict the call returned
    \* ---- ThreatAnalyzer.update_threat_statuses (threat_analyzer.py:241-282)
    today,              \* datetime.utcnow(), in days
    threat_rows,        \* the threats table: status, created_at
    last_update,        \* the last call: when, on which rows, what it returned
    \* ---- ThreatAnalyzer.classify_threat (threat_analyzer.py:31-126)
    threat_data,        \* the dict of the call
    td_text,            \* the keywords in its title and description
    td_given,           \* the dict the first call was given
    td_prev,            \* the dict the last call was given
    td_calls,           \* the calls made
    \* ---- BaseCollector.extract_article_content (base_collector.py:145-177)
    ex_pc,              \* where the call is
    ex_page,            \* what the selectors find in the page
    ex_fetch,           \* how the fetch went
    ex_parse,           \* how the parsing went
    ex_result,          \* what the call returned
    \* ---- BBCCollector.collect (bbc_collector.py:48-93)
    col_pc,             \* where the call is
    col_feed,           \* what parse_rss_feed returned
    col_page,           \* what extract_articles_from_page returned
    col_articles,       \* the list of articles
    col_bodies,         \* how the body fetches went, in order
    col_result,         \* what the call returned
    \* ---- AIProcessor.get_geolocation (ai_processor.py:288-332)
    geo_pc,             \* where the call is
    geo_city,           \* its city argument
    geo_behaviour,      \* what the inference service did
    geo_result,         \* the pair the call returned
    \* ---- ConnectionManager and websocket_endpoint (websocket.py:21-157)
    active_connections, \* ConnectionManager.active_connections
    client_subscriptions, \* ConnectionManager.client_subscriptions, as its entries
    ws_pc,              \* per WebSocket: where its websocket_endpoint is, or how it ended
    bc                  \* the broadcast call: its iterator and whom it sent to

engineVars == <<now, last_request_time, cpc, wake, ncalls, dlog, outcome>>
fallbackVars == <<fb_text, fb_out>>
analyzeVars == <<apc, article_text, source_name, behaviour, response, analysis>>

sweepVars == <<utcnow, running, last_collection_time, db_sources, inv, collects>>

collectVars ==
    <<cf_pc, source_type, feed_left, articles_collected, articles_processed,
      errors, handled, threats, tasks, db_source, cf_result>>

statusVars == <<today, threat_rows, last_update>>

enrichVars == <<threat_data, td_text, td_given, td_prev, td_calls>>

extractVars == <<ex_pc, ex_page, ex_fetch, ex_parse, ex_result>>

collectorVars == <<col_pc, col_feed, col_page, col_articles, col_bodies, col_result>>

geoVars == <<geo_pc, geo_city, geo_behaviour, geo_result>>

socketVars == <<active_connections, client_subscriptions, ws_pc, bc>>

vars ==
    <<engineVars, fallbackVars, analyzeVars, sweepVars, collectVars,
      statusVars, enrichVars, extractVars, collectorVars, geoVars,
      socketVars>>

\* What each component leaves alone.
notEngine ==
    <<fallbackVars, analyzeVars, sweepVars, collectVars, statusVars,
      enrichVars, extractVars, collectorVars, geoVars, socketVars>>
notFallback ==
    <<engineVars, analyzeVars, sweepVars, collectVars, statusVars,
      enrichVars, extractVars, collectorVars, geoVars, socketVars>>
notAnalyze ==
    <<engineVars, fallbackVars, sweepVars, collectVars, statusVars,
      enrichVars, extractVars, collectorVars, geoVars, socketVars>>
notSweep ==
    <<engineVars, fallbackVars, analyzeVars, collectVars, statusVars,
      enrichVars, extractVars, collectorVars, geoVars, socketVars>>
notCollect ==
    <<engineVars, fallbackVars, analyzeVars, sweepVars, statusVars,
      enrichVars, extractVars, collectorVars, geoVars, socketVars>>
notStatus ==
    <<engineVars, fallbackVars, analyzeVars, sweepVars, collectVars,
      enrichVars, extractVars, collectorVars, geoVars, socketVars>>
notEnrich ==
    <<engineVars, fallbackVars, analyzeVars, sweepVars, collectVars,
      statusVars, extractVars, collectorVars, geoVars, socketVars>>
notExtract ==
    <<engineVars, fallbackVars, analyzeVars, sweepVars, collectVars,
      statusVars, enrichVars, collectorVars, geoVars, socketVars>>
notCollector ==
    <<engineVars, fallbackVars, analyzeVars, sweepVars, collectVars,
      statusVars, enrichVars, extractVars, geoVars, socketVars>>
notGeo ==
    <<engineVars, fallbackVars, analyzeVars, sweepVars, collectVars,
      statusVars, enrichVars, extractVars, collectorVars, socketVars>>
notSocket ==
    <<engineVars, fallbackVars, analyzeVars, sweepVars, collectVars,
      statusVars, enrichVars, extractVars, collectorVars, geoVars>>

--------------------------------------------------------------------------
(* Bounds *)

NumCallers == 2
MaxCalls   == 2
MaxTicks   == 4
MaxWords   == 14
NumSources == 2
NumInvocations == 2
MaxSweepTicks  == 1
MaxEntries     == 3
NumThreats     == 2
MaxClassify    == 2
NumRules       == 2
MaxElements    == 2
MaxListing     == 4
NumSockets     == 3
MaxDays        == 2

(* Program constants *)

processing_delay == 2
EpochStart       == 3
TemplateWords    == 183
collection_frequency == 2
max_articles_per_source == 2
max_articles    == 3
monitoring_days == 7
resolved_days   == 30

Callers == 1..NumCallers
MaxTime == EpochStart + MaxTicks

Max2(a, b) == IF a >= b THEN a ELSE b
Min2(a, b) == IF a <= b THEN a ELSE b


--------------------------------------------------------------------------
(* Texts.  A text is what the code reads of it: which keywords occur in   *)
(* its lowercased form (kw), how many whitespace-separated words it has   *)
(* (words), and whether its first sentence holds a ```json ... ``` block  *)
(* and what stands inside it (lead).                                      *)

\* models/threat.py:17-24, in declaration order
ThreatCategoryOrder ==
    <<"political_unrest", "transport_disruption", "weather_emergency",
      "security_incident", "economic_impact", "health_emergency">>
ThreatCategoryValues == {ThreatCategoryOrder[i] : i \in 1..Len(ThreatCategoryOrder)}

\* models/threat.py:27-31
ThreatStatusValues == {"active", "monitoring", "resolved"}

\* ai_processor.py:129-154; a dict iterates in insertion order
keywords ==
    [political_unrest |->
        {"protest", "riot", "demonstration", "unrest", "coup", "revolution",
         "political crisis", "civil unrest", "uprising"},
     transport_disruption |->
        {"delay", "cancel", "strike", "airport", "railway", "road block",
         "traffic", "transport", "travel warning", "border closed"},
     weather_emergency |->
        {"storm", "flood", "hurricane", "tornado", "typhoon", "earthquake",
         "tsunami", "landslide", "wildfire", "extreme weather"},
     security_incident |->
        {"attack", "terrorism", "shooting", "explosion", "bomb", "hostage",
         "kidnap", "threat", "security alert", "evacuation"},
     economic_impact |->
        {"inflation", "recession", "currency", "economic crisis", "financial",
         "market crash", "bank", "shortage", "price increase", "devaluation"},
     health_emergency |->
        {"outbreak", "epidemic", "pandemic", "virus", "disease", "infection",
         "quarantine", "health alert", "medical", "hospital"}]
keywordsOrder ==
    <<"political_unrest", "transport_disruption", "weather_emergency",
      "security_incident", "economic_impact", "health_emergency">>

\* The keywords the bounded texts are made of.
SampleKeywords == {"unrest", "transport", "storm", "threat", "bomb"}
LeadKinds == {"none", "garbage", "number"}

Texts ==
    {t \in [kw : SUBSET SampleKeywords, words : 0..MaxWords, lead : LeadKinds] :
        /\ (t.kw # {} => t.words >= 1)
        /\ (t.lead # "none" => t.words >= 3)}

\* Source names: "BBC News", "Transport Weekly".
SourceNames ==
    {[kw |-> {}, words |-> 2, lead |-> "none"],
     [kw |-> {"transport"}, words |-> 2, lead |-> "none"]}

--------------------------------------------------------------------------
(* Dicts and JSON text *)

AnalysisFields ==
    {"title", "description", "category", "severity", "confidence_score",
     "missionary_relevance", "status"}

\* A dict: the keys it has, and the values of the keys the model follows.
EmptyDict ==
    [fields |-> {}, category |-> "", severity |-> 0, confidence_score |-> 0,
     missionary_relevance |-> 0, status |-> ""]

\* What json.loads makes of a piece of text: a dict, another JSON value, or
\* a JSONDecodeError ("garbage", which covers the empty string).
JObj(d)  == [k |-> "obj", v |-> d]
JOther(kind) == [k |-> kind, v |-> EmptyDict]
NoMatch  == JOther("nomatch")
Garbage  == JOther("garbage")
JsonKinds == {"obj", "list", "number", "null", "string", "garbage"}

\* A response text, as the two patterns of _extract_json_from_response see
\* it: the inside of its first ```json fence, its first-brace-to-last-brace
\* substring, and the text as a whole.
ResponseText(fence, brace, whole) == [fence |-> fence, brace |-> brace, whole |-> whole]

--------------------------------------------------------------------------
(* AIProcessor._fallback_analysis (ai_processor.py:115-188) *)

\* lines 160-162: per category, the number of its keywords in the text
category_scores(text) ==
    [c \in ThreatCategoryValues |-> Cardinality(keywords[c] \cap text.kw)]

\* line 165: max(category_scores, key=category_scores.get) walks the dict in
\* insertion order and keeps an entry only when it is strictly greater.
ReplacesOnTie(candidate, best) == candidate >= best
Replaces(candidate, best) == candidate > best

RECURSIVE PyMaxKey(_, _, _, _)
PyMaxKey(order, score, i, best) ==
    IF i > Len(order) THEN best
    ELSE PyMaxKey(order, score, i + 1,
                  IF Replaces(score[order[i]], score[best]) THEN order[i] ELSE best)

primary_category(text) ==
    PyMaxKey(keywordsOrder, category_scores(text), 2, keywordsOrder[1])

RECURSIVE SumOver(_, _)
SumOver(f, S) ==
    IF S = {} THEN 0
    ELSE LET x == CHOOSE y \in S : TRUE IN f[x] + SumOver(f, S \ {x})

\* line 168
total_matches(text) == SumOver(category_scores(text), ThreatCategoryValues)

\* lines 169-171: int(total_matches / max(1, text_length) * 100), clamped.
\* int() of the float product is the integer quotient for every count of
\* matches the keyword table allows (at most 59).
SeverityRounded(total, text_length) ==
    Min2(10, Max2(1, (200 * total + Max2(1, text_length)) \div (2 * Max2(1, text_length))))
Severity(total, text_length) ==
    Min2(10, Max2(1, (100 * total) \div Max2(1, text_length)))

\* lines 178-186: the analysis dict
FallbackDict(text) ==
    [fields |-> AnalysisFields,
     category |-> primary_category(text),
     severity |-> Severity(total_matches(text), text.words),
     confidence_score |-> 30,
     missionary_relevance |-> 50,
     status |-> "monitoring"]

\* lines 174-175, 188: json.dumps of the dict.  Its description holds the
\* first three sentences of the text, a ```json block of theirs included.
FallbackAnalysis(text) ==
    ResponseText(
        IF text.lead = "none" THEN NoMatch ELSE JOther(text.lead),
        JObj(FallbackDict(text)),
        JObj(FallbackDict(text)))

NoText == [kw |-> {}, words |-> 0, lead |-> "none"]

FallbackIdle ==
    /\ fb_text = NoText
    /\ fb_out = EmptyDict

FallbackInit ==
    /\ fb_text \in Texts
    /\ fb_out = EmptyDict

\* _fallback_analysis(text)
FallbackCall ==
    /\ fb_out = EmptyDict
    /\ fb_out' = FallbackAnalysis(fb_text).whole.v
    /\ UNCHANGED <<fb_text, notFallback>>


--------------------------------------------------------------------------
(* AIProcessor.analyze_article (ai_processor.py:221-286), data view *)

\* lines 234-271: the prompt is the template with source_name and
\* article_text set in.  The template itself holds "unrest"
\* (political_unrest), "transport" (transport_disruption) and "threat".
TemplateKeywords == {"unrest", "transport", "threat"}
Prompt(source, text) ==
    [kw |-> TemplateKeywords \cup source.kw \cup text.kw,
     words |-> TemplateWords + source.words + text.words,
     lead |-> text.lead]

\* What the model may answer with, as dicts.
ModelObjects ==
    {[fields |-> AnalysisFields \cup {"country", "city"},
      category |-> "security_incident", severity |-> 6, confidence_score |-> 90,
      missionary_relevance |-> 70, status |-> "active"],
     [fields |-> AnalysisFields \cup {"country", "city"},
      category |-> "security_incident", severity |-> 1, confidence_score |-> 90,
      missionary_relevance |-> 10, status |-> "resolved"],
     [fields |-> AnalysisFields,
      category |-> "political", severity |-> 5, confidence_score |-> 85,
      missionary_relevance |-> 50, status |-> "active"],
     [fields |-> AnalysisFields,
      category |-> "weather_emergency", severity |-> 15, confidence_score |-> 150,
      missionary_relevance |-> 120, status |-> "active"],
     [fields |-> {"title", "description"},
      category |-> "", severity |-> 0, confidence_score |-> 0,
      missionary_relevance |-> 0, status |-> ""],
     EmptyDict}

\* The response texts of the model: the JSON alone, the JSON in a fence, the
\* JSON inside prose, a fence of garbage before a brace-delimited object,
\* and text with neither ("", "I cannot help with that").
BraceOf(j) == IF j.k = "obj" THEN j ELSE NoMatch
JsonValues ==
    {JObj(d) : d \in ModelObjects} \cup {JOther(k) : k \in JsonKinds \ {"obj"}}
ModelTexts ==
    {ResponseText(NoMatch, BraceOf(j), j) : j \in JsonValues}
    \cup {ResponseText(j, BraceOf(j), Garbage) : j \in JsonValues}
    \cup {ResponseText(NoMatch, JObj(d), Garbage) : d \in ModelObjects}
    \cup {ResponseText(Garbage, JObj(d), Garbage) : d \in ModelObjects}

\* What the inference service does with one request.
Unreachable == {"transport_error", "timeout", "status_not_200"}
Behaviours ==
    {[b |-> x, text |-> ResponseText(NoMatch, NoMatch, Garbage)] :
        x \in Unreachable \cup {"body_not_json", "body_not_object",
                                "response_missing", "response_null"}}
    \cup {[b |-> "response_text", text |-> t] : t \in ModelTexts}

\* What _make_ollama_request returns: a string or None, and whether the
\* string is the fallback analysis.
Returned(t, text, fallback) == [t |-> t, text |-> text, fallback |-> fallback]
NoResponse == Returned("none", ResponseText(NoMatch, NoMatch, Garbage), FALSE)

\* lines 83-113.  A body that is not JSON makes response.json() raise and a
\* body that is not an object has no .get: both end in `except Exception`.
MakeOllamaRequest(prompt, bhv) ==
    CASE bhv.b \in Unreachable \cup {"body_not_json", "body_not_object"} ->
            Returned("str", FallbackAnalysis(prompt), TRUE)
      [] bhv.b = "response_missing" ->
            Returned("str", ResponseText(NoMatch, NoMatch, Garbage), FALSE)
      [] bhv.b = "response_null" ->
            Returned("None", ResponseText(NoMatch, NoMatch, Garbage), FALSE)
      [] OTHER ->
            Returned("str", bhv.text, FALSE)

\* lines 202-211: the text json.loads is given
json_str(text) ==
    IF text.fence.k # "nomatch" THEN text.fence
    ELSE IF text.brace.k # "nomatch" THEN text.brace
    ELSE text.whole

\* lines 200-219: re.search on None raises TypeError, which the handler of
\* JSONDecodeError does not catch; a JSONDecodeError gives {}.
Value(t, j) == [t |-> t, j |-> j]
ExtractJsonFromResponse(resp) ==
    IF resp.t = "None" THEN Value("raise", Garbage)
    ELSE IF json_str(resp.text).k = "garbage" THEN Value("value", JObj(EmptyDict))
    ELSE Value("value", json_str(resp.text))

\* lines 277-286: the item assignments raise TypeError on a value that is
\* no dict.
AnalyzeResult(resp) ==
    LET extracted == ExtractJsonFromResponse(resp) IN
      IF extracted.t = "raise" \/ extracted.j.k # "obj"
        THEN [kind |-> "raised", value |-> EmptyDict]
        ELSE [kind |-> "returned",
              value |-> [extracted.j.v EXCEPT
                           !.fields = @ \cup {"source_url", "source_name", "processed_at"}]]

NoBehaviour == [b |-> "none", text |-> ResponseText(NoMatch, NoMatch, Garbage)]
NoAnalysis == [kind |-> "none", value |-> EmptyDict]

AnalyzeIdle ==
    /\ apc = "idle"
    /\ article_text = NoText
    /\ source_name = NoText
    /\ behaviour = NoBehaviour
    /\ response = NoResponse
    /\ analysis = NoAnalysis

AnalyzeInit ==
    /\ apc = "idle"
    /\ article_text \in Texts
    /\ source_name \in SourceNames
    /\ behaviour = NoBehaviour
    /\ response = NoResponse
    /\ analysis = NoAnalysis

\* analyze_article(article_text, source_name, url) up to the await of
\* session.post in _make_ollama_request.
AnalyzeCall ==
    /\ apc = "idle"
    /\ apc' = "requesting"
    /\ UNCHANGED <<article_text, source_name, behaviour, response, analysis, notAnalyze>>

\* The request ends; analyze_article runs on to its return without another
\* await.
AnalyzeReply(bhv) ==
    /\ apc = "requesting"
    /\ behaviour' = bhv
    /\ response' = MakeOllamaRequest(Prompt(source_name, article_text), bhv)
    /\ analysis' = AnalyzeResult(response')
    /\ apc' = analysis'.kind
    /\ UNCHANGED <<article_text, source_name, notAnalyze>>

AnalyzeNext ==
    \/ AnalyzeCall
    \/ \E bhv \in Behaviours : AnalyzeReply(bhv)


--------------------------------------------------------------------------
(* AIProcessor: timing view *)

Outcomes == {"ok", "http_error", "timeout"}

\* The dispatch log keeps a task's last two dispatches.
Logged(log, t) == IF Len(log) < 2 THEN Append(log, t) ELSE <<log[2], t>>

EngineInit ==
    /\ now = EpochStart
    /\ last_request_time = 0
    /\ cpc = [c \in Callers |-> "idle"]
    /\ wake = [c \in Callers |-> 0]
    /\ ncalls = [c \in Callers |-> 0]
    /\ dlog = [c \in Callers |-> <<>>]
    /\ outcome = [c \in Callers |-> "none"]

\* line 61: delay = self.processing_delay - time_since_last
ThrottleDelayNone(time_since_last) == 0
ThrottleDelay(time_since_last) == processing_delay - time_since_last

\* line 60: if time_since_last < self.processing_delay
MustWait(time_since_last) == time_since_last < processing_delay

\* A task enters _make_ollama_request, from analyze_article (line 274) or
\* from get_geolocation (line 324): initialize() does not suspend, so the
\* code runs up to the asyncio.sleep of _throttle_requests, or, when no sleep
\* is needed, up to the await of session.post, in one step.
MakeRequestEnter(c) ==
    /\ cpc[c] = "idle"
    /\ ncalls[c] < MaxCalls
    /\ ncalls' = [ncalls EXCEPT ![c] = @ + 1]
    /\ LET time_since_last == now - last_request_time IN
         IF MustWait(time_since_last)
           THEN /\ cpc' = [cpc EXCEPT ![c] = "sleeping"]
                /\ wake' = [wake EXCEPT ![c] = now + ThrottleDelay(time_since_last)]
                /\ UNCHANGED <<last_request_time, dlog>>
           ELSE /\ cpc' = [cpc EXCEPT ![c] = "posting"]
                /\ last_request_time' = now
                /\ dlog' = [dlog EXCEPT ![c] = Logged(@, now)]
                /\ UNCHANGED wake
    /\ UNCHANGED <<now, outcome, notEngine>>

\* asyncio.sleep(delay) returns, no earlier than asked: line 65 stores the
\* time and session.post is issued.
ThrottleWake(c) ==
    /\ cpc[c] = "sleeping"
    /\ now >= wake[c]
    /\ cpc' = [cpc EXCEPT ![c] = "posting"]
    /\ wake' = [wake EXCEPT ![c] = 0]
    /\ last_request_time' = now
    /\ dlog' = [dlog EXCEPT ![c] = Logged(@, now)]
    /\ UNCHANGED <<now, ncalls, outcome, notEngine>>

\* session.post completes, one way or another (lines 94-113).
RequestDone(c, o) ==
    /\ cpc[c] = "posting"
    /\ cpc' = [cpc EXCEPT ![c] = "idle"]
    /\ outcome' = [outcome EXCEPT ![c] = o]
    /\ UNCHANGED <<now, last_request_time, wake, ncalls, dlog, notEngine>>

Tick ==
    /\ now < MaxTime
    /\ now' = now + 1
    /\ UNCHANGED <<last_request_time, cpc, wake, ncalls, dlog, outcome, notEngine>>

EngineNext ==
    \/ \E c \in Callers : MakeRequestEnter(c)
    \/ \E c \in Callers : ThrottleWake(c)
    \/ \E c \in Callers, o \in Outcomes : RequestDone(c, o)
    \/ Tick


--------------------------------------------------------------------------
(* TestingCollectionManager.run_collection (news_collector.py:373-466).   *)
(* The calls are asyncio tasks of one event loop: a call runs alone from  *)
(* one await that suspends to the next.  The sweep clock counts in units  *)
(* of which collection_frequency is two.                                  *)

SourceIds   == 1..NumSources
Invocations == 1..NumInvocations
None        == -1
\* the source_id argument: None, the id of a source, or an id of no source
SourceIdArgs == {None} \cup SourceIds \cup {NumSources + 1}
SweepStart  == collection_frequency
SweepEnd    == SweepStart + MaxSweepTicks

\* The source_results of a report: the list of line 455, or no such key
\* (lines 385, 403-410, 460-464).
SourceResults(results) == [kind |-> "list", entries |-> results]
NoSourceResults == [kind |-> "no key", entries |-> <<>>]
\* A report; the counts a report does not carry (lines 385, 460-464) are 0.
NoReport ==
    [status |-> "none", sources_processed |-> 0, articles_collected |-> 0,
     articles_processed |-> 0, errors |-> 0, source_results |-> NoSourceResults]
\* lines 414-416: the totals of a sweep
NoTotals ==
    [total_articles_collected |-> 0, total_articles_processed |-> 0,
     total_errors |-> 0]
IdleCall ==
    [pc |-> "idle", source_id |-> None, todo |-> <<>>, during |-> 0,
     eligible |-> {}, nresults |-> 0, results |-> <<>>, totals |-> NoTotals,
     report |-> NoReport]

SweepIdle ==
    /\ utcnow = SweepStart
    /\ running = FALSE
    /\ last_collection_time = None
    /\ db_sources = [s \in SourceIds |-> [is_active |-> TRUE, last_collected_at |-> None]]
    /\ inv = [i \in Invocations |-> IdleCall]
    /\ collects = [i \in Invocations |-> [s \in SourceIds |-> 0]]

\* A source was never collected, or long ago, or less than
\* collection_frequency ago.
SweepInit ==
    /\ utcnow = SweepStart
    /\ running = FALSE
    /\ last_collection_time = None
    /\ db_sources \in [SourceIds ->
          [is_active : BOOLEAN, last_collected_at : {None, 0, SweepStart - 1}]]
    /\ inv = [i \in Invocations |-> IdleCall]
    /\ collects = [i \in Invocations |-> [s \in SourceIds |-> 0]]

\* lines 402 and 466: self.running = False
RunningLeftSet == TRUE
RunningAtExit == FALSE

\* line 383: if self.running
NeverRunning == FALSE
AlreadyRunning == running

\* lines 393-399: the active sources, the one named by source_id when given
SelectAllSources(s, source_id) ==
    [k \in 1..(NumSources + 1 - s) |->
        [id |-> s + k - 1, last_collected_at |-> db_sources[s + k - 1].last_collected_at]]
RECURSIVE SelectSources(_, _)
SelectSources(s, source_id) ==
    IF s > NumSources THEN <<>>
    ELSE IF db_sources[s].is_active /\ (source_id = None \/ s = source_id)
      THEN <<[id |-> s, last_collected_at |-> db_sources[s].last_collected_at]>>
           \o SelectSources(s + 1, source_id)
      ELSE SelectSources(s + 1, source_id)

\* lines 420-426: the rate limiting check of one listed source
SkippedNever(source, source_id) == FALSE
Skipped(source, source_id) ==
    /\ source.last_collected_at # None
    /\ utcnow - source.last_collected_at < collection_frequency
    /\ source_id = None

RECURSIVE DropSkipped(_, _)
DropSkipped(todo, source_id) ==
    IF todo = <<>> THEN <<>>
    ELSE IF Skipped(Head(todo), source_id) THEN DropSkipped(Tail(todo), source_id)
    ELSE todo

\* lines 439-456 and the finally of line 465: the loop is over
Completed(call) ==
    [call EXCEPT !.pc = "returned", !.todo = <<>>,
                 !.report =
                    [status |-> "completed",
                     sources_processed |-> call.nresults,
                     articles_collected |-> call.totals.total_articles_collected,
                     articles_processed |-> call.totals.total_articles_processed,
                     errors |-> call.totals.total_errors,
                     source_results |-> SourceResults(call.results)]]

\* lines 458-466: an exception inside the try block is reported
ErrorRaised(call) == [call EXCEPT !.pc = "raised"]
ErrorReport(call) ==
    [call EXCEPT !.pc = "returned",
                 !.report = [NoReport EXCEPT !.status = "error"]]

\* lines 418-430: the loop, from the listed sources still to handle, up to
\* the next await that suspends: it passes the skipped sources and either
\* calls collect_from_source for the first one that is not, or ends.
\* `calls` and `counts` are inv and collects as the step found or made them.
LoopOn(i, calls, counts, todo) ==
    LET rest == DropSkipped(todo, calls[i].source_id) IN
      IF rest = <<>>
        THEN /\ inv' = [calls EXCEPT ![i] = Completed(@)]
             /\ last_collection_time' = utcnow
             /\ running' = RunningAtExit
             /\ collects' = counts
        ELSE /\ inv' = [calls EXCEPT ![i] =
                          [@ EXCEPT !.pc = "collecting", !.todo = rest,
                                    !.eligible = @ \cup {Head(rest).id}]]
             /\ collects' = [counts EXCEPT ![i][Head(rest).id] = @ + 1]
             /\ running' = TRUE
             /\ UNCHANGED last_collection_time

InFlight(i) == inv[i].pc \in {"collecting", "sleeping"}

\* The record of a sweep (which sources it reached, how often each was
\* collected, which calls it rejected) is kept until the next sweep starts;
\* of a report returned before that, the status is kept.
Forget(call) ==
    IF call.pc = "returned"
      THEN [IdleCall EXCEPT !.pc = "returned",
                            !.report = [NoReport EXCEPT !.status = call.report.status]]
      ELSE call
Started(i, call) == [h \in Invocations |-> IF h = i THEN call ELSE Forget(inv[h])]
Recounted(i) ==
    [h \in Invocations |->
        IF h # i /\ inv[h].pc = "returned" THEN [s \in SourceIds |-> 0] ELSE collects[h]]

\* lines 383-385: the call returns before it has set anything
TurnedAwayClearsFlag(i, call) ==
    /\ inv' = [inv EXCEPT ![i] =
                 [call EXCEPT !.pc = "returned",
                              !.report = [NoReport EXCEPT !.status = "already_running"]]]
    /\ running' = FALSE
    /\ UNCHANGED <<last_collection_time, collects>>
TurnedAway(i, call) ==
    /\ inv' = [inv EXCEPT ![i] =
                 [call EXCEPT !.pc = "returned",
                              !.report = [NoReport EXCEPT !.status = "already_running"]]]
    /\ UNCHANGED <<running, last_collection_time, collects>>

\* run_collection(source_id) is called: lines 383-430.  listing is whether
\* the query of the sources table succeeds.  The calls are numbered in the
\* order they are made.
RunCollection(i, source_id, listing) ==
    /\ inv[i].pc = "idle"
    /\ \A h \in Invocations : h < i => inv[h].pc # "idle"
    /\ LET call == [inv[i] EXCEPT
                      !.source_id = source_id,
                      !.during = IF \E j \in Invocations : InFlight(j)
                                   THEN CHOOSE j \in Invocations : InFlight(j)
                                   ELSE 0]
       IN
         IF AlreadyRunning
           THEN TurnedAway(i, call)
         ELSE IF listing = "fails"
           THEN \* lines 458-466
                /\ inv' = Started(i, ErrorReport(call))
                /\ running' = RunningAtExit
                /\ collects' = Recounted(i)
                /\ UNCHANGED last_collection_time
         ELSE IF SelectSources(1, source_id) = <<>>
           THEN \* lines 401-411
                /\ inv' = Started(i, [call EXCEPT !.pc = "returned",
                                        !.report = [NoReport EXCEPT !.status = "completed"]])
                /\ running' = RunningAtExit
                /\ collects' = Recounted(i)
                /\ UNCHANGED last_collection_time
         ELSE LoopOn(i, Started(i, call), Recounted(i), SelectSources(1, source_id))
    /\ UNCHANGED <<utcnow, db_sources, notSweep>>

\* How one collect_from_source call ends (lines 68-224):
\*   "collected" it handled an article and reached the statistics update
\*               of lines 186-194
\*   "nothing"   it reached the statistics update with no article handled
\*               (the body of its one entry could not be fetched)
\*   "early"     it returned from lines 75-84 or 130-139
\*   "failed"    an exception was handled by lines 207-224
\*   "raised"    the handler's own database write (lines 211-215) raised
CollectOutcomes == {"collected", "nothing", "early", "failed", "raised"}
Updated == {"collected", "nothing"}

\* The dict collect_from_source returns (lines 77-84, 132-139, 198-205,
\* 217-224).
CollectResult(how) ==
    IF how = "collected"
      THEN [articles_collected |-> 1, articles_processed |-> 1, errors |-> 0]
      ELSE [articles_collected |-> 0, articles_processed |-> 0, errors |-> 1]

\* lines 430-434
AddResultNoErrors(call, res) ==
    [call EXCEPT
       !.nresults = @ + 1,
       !.results = Append(@, res),
       !.totals = [total_articles_collected |-> @.total_articles_collected + res.articles_collected,
                   total_articles_processed |-> @.total_articles_processed + res.articles_processed,
                   total_errors |-> @.total_errors]]
AddResult(call, res) ==
    [call EXCEPT
       !.nresults = @ + 1,
       !.results = Append(@, res),
       !.totals = [total_articles_collected |-> @.total_articles_collected + res.articles_collected,
                   total_articles_processed |-> @.total_articles_processed + res.articles_processed,
                   total_errors |-> @.total_errors + res.errors]]

\* collect_from_source returns to line 429, or raises into line 458.
CollectReturn(i, how) ==
    /\ inv[i].pc = "collecting"
    /\ db_sources' =
          IF how \in Updated
            THEN [db_sources EXCEPT ![Head(inv[i].todo).id].last_collected_at = utcnow]
            ELSE db_sources
    /\ IF how = "raised"
         THEN \* the sources of todo that are left are never reached
              /\ inv' = [inv EXCEPT ![i] =
                           ErrorReport([@ EXCEPT !.todo = DropSkipped(Tail(@), inv[i].source_id)])]
              /\ running' = RunningAtExit
         ELSE /\ inv' = [inv EXCEPT ![i] =
                           AddResult([@ EXCEPT !.pc = "sleeping", !.todo = Tail(@)],
                                     CollectResult(how))]
              /\ UNCHANGED running
    /\ UNCHANGED <<utcnow, last_collection_time, collects, notSweep>>

\* asyncio.sleep(2) of line 437 returns and the loop goes on.
SleepReturn(i) ==
    /\ inv[i].pc = "sleeping"
    /\ LoopOn(i, inv, collects, inv[i].todo)
    /\ UNCHANGED <<utcnow, db_sources, notSweep>>

\* The task of call i is cancelled at the await it is suspended in (line
\* 429 or 437).  CancelledError is no Exception: neither collect_from_source
\* (line 207) nor line 458 catches it, no report is returned, and the
\* finally of line 465 runs.
Cancel(i) ==
    /\ InFlight(i)
    /\ inv' = [inv EXCEPT ![i] =
                 [@ EXCEPT !.pc = "returned", !.todo = <<>>,
                           !.report = [NoReport EXCEPT !.status = "cancelled"]]]
    /\ running' = RunningAtExit
    /\ UNCHANGED <<utcnow, last_collection_time, db_sources, collects, notSweep>>

SweepTick ==
    /\ utcnow < SweepEnd
    /\ utcnow' = utcnow + 1
    /\ UNCHANGED <<running, last_collection_time, db_sources, inv, collects, notSweep>>

SweepNext ==
    \/ \E i \in Invocations, source_id \in SourceIdArgs, listing \in {"ok", "fails"} :
          RunCollection(i, source_id, listing)
    \/ \E i \in Invocations, how \in CollectOutcomes : CollectReturn(i, how)
    \/ \E i \in Invocations : SleepReturn(i)
    \/ SweepTick

\* The sweeps with cancellation.  A collect_from_source call ends (its
\* requests carry timeouts, lines 127 and 236) and asyncio.sleep(2) returns.
SweepLiveNext ==
    \/ SweepNext
    \/ \E i \in Invocations : Cancel(i)
SweepFairness ==
    /\ WF_vars(\E i \in Invocations, how \in CollectOutcomes : CollectReturn(i, how))
    /\ WF_vars(\E i \in Invocations : SleepReturn(i))

--------------------------------------------------------------------------
(* TestingCollectionManager.collect_from_source (news_collector.py:51-371) *)
(*                                                                        *)
(* One call, on one source.  A step opens the source, or handles one      *)
(* entry of its feed (one link of its page) from the fetch of the body to *)
(* the commit of the threat, or updates the statistics of the source.     *)
(* Nothing else runs on the manager while the call is suspended.          *)

SourceTypes == {"rss_feed", "web_scrape", "other"}
NA == "n/a"
DbOutcomes == {"ok", "fails"}

\* dict.get(key, default)
DictGet(d, key, default) == IF key \in d.fields THEN d[key] ELSE default

\* What analyze_article does at line 291: it raises, or returns a dict
\* that it has stamped with the source (ai_processor.py:277-283).
Stamp == {"source_url", "source_name", "processed_at"}
\* Beside the dict, two more of its values are followed: the keywords in
\* its title and description, and its country ("None" when the key is
\* missing or null).
Answer(kind, value, text, country) ==
    [kind |-> kind, value |-> value, text |-> text, country |-> country]
Unassessed == Answer("none", EmptyDict, {}, "None")
Countries == {"None", "", "France"}
Assessment(severity, relevance, country) ==
    Answer("returned",
           [fields |-> AnalysisFields \cup Stamp,
            category |-> "security_incident", severity |-> severity,
            confidence_score |-> 90, missionary_relevance |-> relevance,
            status |-> "active"],
           {}, country)
\* an answer with a title and a description and nothing else
TitleOnly ==
    Answer("returned", [EmptyDict EXCEPT !.fields = {"title", "description"} \cup Stamp],
           {"critical", "evacuation", "church"}, "None")
\* an answer whose numbers are outside the ranges the prompt asks for, and
\* whose category and status are not among the values
OutOfRange ==
    Answer("returned",
           [fields |-> AnalysisFields \cup Stamp,
            category |-> "political", severity |-> 15,
            confidence_score |-> 150, missionary_relevance |-> 120,
            status |-> "closed"],
           {}, "France")
Assessments ==
    {Assessment(s, r, c) : s \in {1, 2}, r \in {19, 20}, c \in Countries}
        \cup {Answer("returned", [EmptyDict EXCEPT !.fields = Stamp], {}, "None"),
              TitleOnly, OutOfRange,
              Answer("raised", EmptyDict, {}, "None")}

\* _fetch_article_content, lines 226-263: the text of the page, or None
FetchOutcomes ==
    {"text", "empty_text", "status_not_200", "timeout", "transport_error"}
FetchArticleContent(fetch) ==
    IF fetch = "text" THEN "text"
    ELSE IF fetch = "empty_text" THEN ""
    ELSE "None"

\* lines 101 and 161: if not article_content
FetchedAlways(article_content) == TRUE
Fetched(article_content) == article_content \notin {"", "None"}

\* line 294: the threshold filter
RejectedBelowOne(d) ==
    DictGet(d, "severity", 0) < 1 \/ DictGet(d, "missionary_relevance", 0) < 20
Rejected(d) ==
    DictGet(d, "severity", 0) < 2 \/ DictGet(d, "missionary_relevance", 0) < 20

\* lines 324-334: an unknown category or status takes the default
Category(d) ==
    LET c == DictGet(d, "category", "security_incident") IN
      IF c \in ThreatCategoryValues THEN c ELSE "security_incident"
Status(d) ==
    LET st == DictGet(d, "status", "active") IN
      IF st \in ThreatStatusValues THEN st ELSE "active"

\* lines 337-354: the row for entry k
Threat(d, k) ==
    [article |-> k,
     severity |-> DictGet(d, "severity", 5),
     category |-> Category(d),
     status |-> Status(d),
     confidence_score |-> DictGet(d, "confidence_score", 50),
     missionary_relevance |-> DictGet(d, "missionary_relevance", 50)]

\* lines 359-367: the broadcast.  The import or create_task may fail
\* ("emit_fails"), or the task may fail later ("delivery_fails"); the
\* function returns True.
Notifications == {"delivered", "delivery_fails", "emit_fails"}
AnnouncedFatal(notify) == IF notify = "delivered" THEN "True" ELSE "raise"
Announced(notify) == "True"
ScheduledTwice(notify, k) ==
    <<[article |-> k, outcome |-> notify], [article |-> k, outcome |-> notify]>>
Scheduled(notify, k) ==
    IF notify = "emit_fails" THEN <<>> ELSE <<[article |-> k, outcome |-> notify]>>

\* What can happen around one entry.  Fields that play no part are NA.
Entry(link, fetch, extract, an, store, notify) ==
    [link |-> link, fetch |-> fetch, extract |-> extract, analysis |-> an,
     store |-> store, notify |-> notify]
Accepted == {a \in Assessments : a.kind = "returned" /\ ~Rejected(a.value)}
EntryCases ==
    {Entry(FALSE, NA, NA, Unassessed, NA, NA)}
        \cup {Entry(TRUE, f, NA, Unassessed, NA, NA) : f \in FetchOutcomes \ {"text"}}
        \cup {Entry(TRUE, "text", "raises", Unassessed, NA, NA)}
        \cup {Entry(TRUE, "text", "ok", a, NA, NA) : a \in Assessments \ Accepted}
        \cup {Entry(TRUE, "text", "ok", a, "fails", NA) : a \in Accepted}
        \cup {Entry(TRUE, "text", "ok", a, "ok", n) : a \in Accepted, n \in Notifications}

\* lines 298-304: if country
Truthy(country) == country \notin {"None", ""}
GetGeolocation(country) ==
    IF Truthy(country) THEN <<"get_geolocation">> ELSE <<>>

\* _process_article, lines 286-371, for entry k: what it returns, the rows
\* it commits, the tasks it creates and the calls it makes, in their order.
ProcessArticle(e, k) ==
    IF e.analysis.kind # "returned"
      THEN [ret |-> "False", rows |-> <<>>, tasks |-> <<>>,
            calls |-> <<"analyze_article">>]
    ELSE IF Rejected(e.analysis.value)
      THEN [ret |-> "True", rows |-> <<>>, tasks |-> <<>>,
            calls |-> <<"analyze_article", "filter">>]
    ELSE IF e.store = "fails"
      THEN [ret |-> "False", rows |-> <<>>, tasks |-> <<>>,
            calls |-> <<"analyze_article", "filter">>
                         \o GetGeolocation(e.analysis.country) \o <<"commit">>]
    ELSE [ret |-> Announced(e.notify),
          rows |-> <<Threat(e.analysis.value, k)>>,
          tasks |-> Scheduled(e.notify, k),
          calls |-> <<"analyze_article", "filter">>
                       \o GetGeolocation(e.analysis.country)
                       \o <<"commit", "broadcast_new_threat">>]

\* lines 88-120 (156-184): one turn of the loop, for entry e
Effect(e) ==
    LET k == Len(handled) + 1
        step == IF ~e.link THEN "no_link"
                ELSE IF ~Fetched(FetchArticleContent(e.fetch)) THEN "not_fetched"
                ELSE IF e.extract = "raises" THEN "raised"
                ELSE "processed"
        done == ProcessArticle(e, k)
        raised == step = "raised" \/ (step = "processed" /\ done.ret = "raise")
        counted == step = "processed" /\ done.ret # "raise"
    IN [analyzed |-> step = "processed",
        calls |-> (IF e.link THEN <<"fetch_article_content">> ELSE <<>>)
                     \o (IF step = "processed" THEN done.calls ELSE <<>>),
        threats |-> IF step = "processed" THEN threats \o done.rows ELSE threats,
        tasks |-> IF step = "processed" THEN tasks \o done.tasks ELSE tasks,
        articles_collected |-> articles_collected + (IF counted THEN 1 ELSE 0),
        articles_processed |-> articles_processed + (IF counted THEN 1 ELSE 0),
        errors |-> errors + (IF step = "not_fetched" \/ raised THEN 1 ELSE 0)]

NoResult == [articles_collected |-> 0, articles_processed |-> 0, errors |-> 0]
\* lines 77-84, 132-139, 217-224
ErrorResult == [articles_collected |-> 0, articles_processed |-> 0, errors |-> 1]

NewSource ==
    [last_collected_at |-> None, total_articles_collected |-> 0,
     successful_collections |-> 0, failed_collections |-> 0]

CollectIdle ==
    /\ cf_pc = "idle"
    /\ source_type = "rss_feed"
    /\ feed_left = 0
    /\ articles_collected = 0
    /\ articles_processed = 0
    /\ errors = 0
    /\ handled = <<>>
    /\ threats = <<>>
    /\ tasks = <<>>
    /\ db_source = NewSource
    /\ cf_result = NoResult

\* lines 61-66
CollectInit ==
    /\ cf_pc = "start"
    /\ source_type \in SourceTypes
    /\ feed_left = 0
    /\ articles_collected = 0
    /\ articles_processed = 0
    /\ errors = 0
    /\ handled = <<>>
    /\ threats = <<>>
    /\ tasks = <<>>
    /\ db_source = NewSource
    /\ cf_result = NoResult

\* lines 207-224: the handler of the call.  hdb is how its own write of
\* the counters goes.
Handler(hdb) ==
    IF hdb = "ok"
      THEN /\ db_source' = [db_source EXCEPT !.failed_collections = @ + 1]
           /\ cf_result' = ErrorResult
           /\ cf_pc' = "returned"
      ELSE /\ cf_pc' = "raised"
           /\ UNCHANGED <<db_source, cf_result>>

\* lines 75-84 and 130-139
EarlyReturn ==
    /\ cf_result' = ErrorResult
    /\ cf_pc' = "returned"
    /\ UNCHANGED db_source

\* How the source opens: the feed parsed with n entries (lines 72-87), the
\* page answered with n article links or with another status (lines
\* 129-156), a type that is neither, or an exception.
OpenOutcomes == {"parsed", "status_200", "status_other", "neither", "raises"}
OpensAs(how) ==
    \/ how = "raises" /\ source_type # "other"
    \/ how = "parsed" /\ source_type = "rss_feed"
    \/ how \in {"status_200", "status_other"} /\ source_type = "web_scrape"
    \/ how = "neither" /\ source_type = "other"

OpenSource(n, how, hdb) ==
    /\ cf_pc = "start"
    /\ OpensAs(how)
    /\ IF how = "raises"
         THEN Handler(hdb) /\ UNCHANGED feed_left
       ELSE IF (how = "parsed" /\ n = 0) \/ how = "status_other"
         THEN EarlyReturn /\ UNCHANGED feed_left
       ELSE LET taken == IF how = "neither" THEN 0
                         ELSE Min2(n, max_articles_per_source)
            IN /\ feed_left' = taken
               /\ cf_pc' = IF taken = 0 THEN "statistics" ELSE "articles"
               /\ UNCHANGED <<db_source, cf_result>>
    /\ UNCHANGED <<source_type, articles_collected, articles_processed, errors,
                   handled, threats, tasks, notCollect>>

HandleEntry(e) ==
    /\ cf_pc = "articles"
    /\ e.link \/ source_type = "rss_feed"
    /\ LET eff == Effect(e) IN
         /\ handled' = Append(handled, [entry |-> e, analyzed |-> eff.analyzed,
                                      calls |-> eff.calls])
         /\ threats' = eff.threats
         /\ tasks' = eff.tasks
         /\ articles_collected' = eff.articles_collected
         /\ articles_processed' = eff.articles_processed
         /\ errors' = eff.errors
    /\ feed_left' = feed_left - 1
    /\ cf_pc' = IF feed_left = 1 THEN "statistics" ELSE "articles"
    /\ UNCHANGED <<source_type, db_source, cf_result, notCollect>>

\* lines 186-205
UpdateStatistics(db, hdb) ==
    /\ cf_pc = "statistics"
    /\ IF db = "ok"
         THEN /\ db_source' =
                   [last_collected_at |-> utcnow,
                    total_articles_collected |->
                        db_source.total_articles_collected + articles_collected,
                    successful_collections |->
                        db_source.successful_collections
                            + (IF articles_collected > 0 THEN 1 ELSE 0),
                    failed_collections |->
                        db_source.failed_collections
                            + (IF articles_collected = 0 THEN 1 ELSE 0)]
              /\ cf_result' = [articles_collected |-> articles_collected,
                               articles_processed |-> articles_processed,
                               errors |-> errors]
              /\ cf_pc' = "returned"
         ELSE Handler(hdb)
    /\ UNCHANGED <<source_type, feed_left, articles_collected, articles_processed,
                   errors, handled, threats, tasks, notCollect>>

CollectNext ==
    \/ \E n \in 0..MaxEntries, how \in OpenOutcomes, hdb \in DbOutcomes :
          OpenSource(n, how, hdb)
    \/ \E e \in EntryCases : HandleEntry(e)
    \/ \E db \in DbOutcomes, hdb \in DbOutcomes : UpdateStatistics(db, hdb)

\* lines 429-456: the report of a sweep whose one source gave result res
SweepReport(res) == Completed(AddResult(IdleCall, res)).report

--------------------------------------------------------------------------
(* ThreatAnalyzer.update_threat_statuses (threat_analyzer.py:241-282)     *)
(*                                                                        *)
(* The threats table as the calls find it, with time in whole days.  A    *)
(* call runs without an await, so it is one step.                         *)

ThreatIds == 1..NumThreats
FirstDay  == resolved_days + 1
LastDay   == FirstDay + MaxDays
\* ages on the first day: 3 days, the two cutoffs exactly, a day past each
Ages == {3, monitoring_days, monitoring_days + 1, resolved_days, resolved_days + 1}
ThreatRows ==
    [status : ThreatStatusValues, created_at : {FirstDay - a : a \in Ages}]

NoUpdate ==
    [ret |-> "none", at |-> 0, before |-> <<>>, earlier |-> <<>>,
     updated_to_monitoring |-> 0, updated_to_resolved |-> 0]

StatusIdle ==
    /\ today = FirstDay
    /\ threat_rows = <<>>
    /\ last_update = NoUpdate

StatusInit ==
    /\ today = FirstDay
    /\ threat_rows \in [ThreatIds -> ThreatRows]
    /\ last_update = NoUpdate

\* database.py:41: the session does not flush before a query, so the second
\* query of a call reads the rows as they are stored.
autoflush_on == TRUE
autoflush == FALSE

\* lines 250-253 and 263-266: Threat.created_at < utcnow() - timedelta(days)
OlderOrEqual(row, days) == row.created_at <= today - days
Older(row, days) == row.created_at < today - days

\* lines 252 and 265: the status the query filters on
AnyStatus(row, status) == TRUE
HasStatus(row, status) == row.status = status

\* line 276: db.commit() writes the rows of the session, or raises and the
\* session is closed with nothing written
RolledBack(commit, final, stored) == stored
Commit(commit, final, stored) == IF commit = "ok" THEN final ELSE stored

\* lines 248-282.  commit is whether db.commit() of line 276 succeeds.
\* Of the call before this one, the rows it found are kept (earlier).
UpdateThreatStatuses(commit) ==
    LET stored == threat_rows
        old_threats ==
            {t \in ThreatIds :
                HasStatus(stored[t], "active") /\ Older(stored[t], monitoring_days)}
        pending ==
            [t \in ThreatIds |->
                IF t \in old_threats
                  THEN [stored[t] EXCEPT !.status = "monitoring"]
                  ELSE stored[t]]
        seen == IF autoflush THEN pending ELSE stored
        old_monitoring ==
            {t \in ThreatIds :
                HasStatus(seen[t], "monitoring") /\ Older(seen[t], resolved_days)}
        final ==
            [t \in ThreatIds |->
                IF t \in old_monitoring
                  THEN [pending[t] EXCEPT !.status = "resolved"]
                  ELSE pending[t]]
    IN /\ threat_rows' = Commit(commit, final, stored)
       /\ last_update' =
             [ret |-> IF commit = "ok" THEN "returned" ELSE "raised",
              at |-> today,
              before |-> stored,
              earlier |-> last_update.before,
              updated_to_monitoring |-> Cardinality(old_threats),
              updated_to_resolved |-> Cardinality(old_monitoring)]
       /\ UNCHANGED <<today, notStatus>>

StatusTick ==
    /\ today < LastDay
    /\ today' = today + 1
    /\ UNCHANGED <<threat_rows, last_update, notStatus>>

StatusNext ==
    \/ \E commit \in DbOutcomes : UpdateThreatStatuses(commit)
    \/ StatusTick

\* update_threat_statuses keeps being called and keeps returning.
StatusFairness == WF_vars(UpdateThreatStatuses("ok"))

--------------------------------------------------------------------------
(* ThreatAnalyzer.classify_threat (threat_analyzer.py:31-126)             *)
(*                                                                        *)
(* threat_data is the dict the call is given and returns; it is changed   *)
(* in place.  Of its keys the model follows severity, category and        *)
(* missionary_relevance: fields holds the keys that are present, nulls    *)
(* those whose value is None.  The text of line 42 is the set of keywords *)
(* that occur in the lowercased title and description.                    *)

\* lines 47-52, in the order of the dict
severity_levels_ascending == <<3, 5, 7, 9>>
severity_levels == <<9, 7, 5, 3>>
severity_keywords ==
    [l \in {9, 7, 5, 3} |->
        CASE l = 9 -> {"critical", "imminent", "extreme danger", "evacuation",
                       "mass casualty"}
          [] l = 7 -> {"danger", "violent", "armed", "explosion", "attack", "killed"}
          [] l = 5 -> {"warning", "alert", "protest", "demonstration", "disruption"}
          [] l = 3 -> {"concern", "monitor", "potential", "possible", "reported"}]

\* lines 67-92
category_keywords ==
    [political_unrest |->
        {"protest", "riot", "demonstration", "election", "political",
         "government", "coup", "unrest", "uprising"},
     transport_disruption |->
        {"airport", "flight", "train", "road", "traffic", "delay", "cancel",
         "transport", "travel", "border"},
     weather_emergency |->
        {"storm", "flood", "hurricane", "tornado", "typhoon", "earthquake",
         "tsunami", "weather", "rain", "snow", "temperature"},
     security_incident |->
        {"attack", "terrorism", "shooting", "explosion", "bomb", "hostage",
         "kidnap", "security", "police", "military", "weapon"},
     economic_impact |->
        {"economy", "financial", "currency", "inflation", "market", "stock",
         "bank", "price", "cost", "shortage", "supply"},
     health_emergency |->
        {"disease", "virus", "outbreak", "infection", "hospital", "medical",
         "health", "patient", "doctor", "treatment", "vaccine"}]

\* lines 108-112
relevance_keywords ==
    {"church", "missionary", "religious", "christian", "faith", "worship",
     "foreigner", "westerner", "american", "european", "international",
     "evacuation", "embassy", "consulate", "visa", "passport", "travel advisory"}

\* The keywords the bounded titles and descriptions are made of.  None of
\* them holds another keyword of the three tables.
TitleKeywords ==
    {"critical", "evacuation", "attack", "bomb", "protest", "reported", "flood",
     "church"}

ClassifiedKeys == {"severity", "category", "missionary_relevance"}

\* lines 45, 65, 106: "key" not in threat_data or threat_data["key"] is None
UnsetAlways(d, key) == TRUE
Unset(d, key) == key \notin d.fields \/ key \in d.nulls

\* d[key] = value
SetKey(d, key, value) ==
    [d EXCEPT ![key] = value, !.fields = @ \cup {key}, !.nulls = @ \ {key}]

\* lines 54-60: the level of the first row with a keyword in the text
RECURSIVE FirstLevel(_, _)
FirstLevel(text, i) ==
    IF i > Len(severity_levels) THEN 1
    ELSE IF severity_keywords[severity_levels[i]] \cap text # {}
      THEN severity_levels[i]
    ELSE FirstLevel(text, i + 1)

\* lines 94-102: the first category with the most keywords in the text
\* line 98: if matches > max_matches
AsManyMatches(matches, max_matches) == matches >= max_matches
MoreMatches(matches, max_matches) == matches > max_matches

RECURSIVE MostMatches(_, _, _, _)
MostMatches(text, i, category, max_matches) ==
    IF i > Len(ThreatCategoryOrder) THEN category
    ELSE LET cat == ThreatCategoryOrder[i]
             matches == Cardinality(category_keywords[cat] \cap text)
         IN IF MoreMatches(matches, max_matches)
              THEN MostMatches(text, i + 1, cat, matches)
              ELSE MostMatches(text, i + 1, category, max_matches)

\* lines 114-123: int(min(100, max(10, (base_relevance + severity_factor) / 2)))
Relevance(text, severity) ==
    LET keyword_matches == Cardinality(relevance_keywords \cap text)
        base_relevance == Min2(100, keyword_matches * 10)
        severity_factor == severity * 5
    IN Min2(100, Max2(10, (base_relevance + severity_factor) \div 2))

\* lines 31-126
ClassifyThreat(d, text) ==
    LET d1 == IF Unset(d, "severity")
                THEN SetKey(d, "severity", FirstLevel(text, 1)) ELSE d
        d2 == IF Unset(d1, "category")
                THEN SetKey(d1, "category", MostMatches(text, 1, "security_incident", 0))
                ELSE d1
    IN IF Unset(d2, "missionary_relevance")
         THEN SetKey(d2, "missionary_relevance", Relevance(text, d2.severity))
         ELSE d2

\* The dicts a call may be given: each key missing, None or set.
KeyStates == {"missing", "None", "set"}
ThreatData(s, c, r) ==
    [fields |-> {"title", "description"}
                   \cup (IF s # "missing" THEN {"severity"} ELSE {})
                   \cup (IF c # "missing" THEN {"category"} ELSE {})
                   \cup (IF r # "missing" THEN {"missionary_relevance"} ELSE {}),
     nulls |-> (IF s = "None" THEN {"severity"} ELSE {})
                   \cup (IF c = "None" THEN {"category"} ELSE {})
                   \cup (IF r = "None" THEN {"missionary_relevance"} ELSE {}),
     severity |-> IF s = "set" THEN 4 ELSE 0,
     category |-> IF c = "set" THEN "economic_impact" ELSE "",
     missionary_relevance |-> IF r = "set" THEN 77 ELSE 0]
NoThreatData == ThreatData("missing", "missing", "missing")

EnrichIdle ==
    /\ threat_data = NoThreatData
    /\ td_text = {}
    /\ td_given = NoThreatData
    /\ td_prev = NoThreatData
    /\ td_calls = 0

EnrichInit ==
    /\ threat_data \in {ThreatData(s, c, r) : s \in KeyStates, c \in KeyStates, r \in KeyStates}
    /\ td_text \in SUBSET TitleKeywords
    /\ td_given = threat_data
    /\ td_prev = threat_data
    /\ td_calls = 0

\* one call, given the dict the last call returned
ClassifyCall ==
    /\ td_calls < MaxClassify
    /\ threat_data' = ClassifyThreat(threat_data, td_text)
    /\ td_prev' = threat_data
    /\ td_calls' = td_calls + 1
    /\ UNCHANGED <<td_text, td_given, notEnrich>>

EnrichNext == ClassifyCall

--------------------------------------------------------------------------
(* BaseCollector.extract_article_content (base_collector.py:145-177)      *)
(*                                                                        *)
(* A page is what the selectors find in it: for each selector, in order,  *)
(* the elements it selects, each with text (TRUE) or without (FALSE).     *)
(* The text of element j of selector i is the piece <<i, j>>; a string is *)
(* the sequence of its pieces, <<>> being a piece of whitespace only.     *)

Rules == 1..NumRules
RECURSIVE SeqsUpTo(_, _)
SeqsUpTo(S, n) ==
    IF n = 0 THEN {<<>>}
    ELSE LET shorter == SeqsUpTo(S, n - 1)
         IN shorter \cup {Append(q, x) : q \in {p \in shorter : Len(p) = n - 1}, x \in S}
Pages == [Rules -> SeqsUpTo(BOOLEAN, MaxElements)]

\* fetch_url, lines 68-89: the body, or None when the status is not 200 or
\* the request raises
FetchUrl(fetch) ==
    IF fetch = "text" THEN "html"
    ELSE IF fetch = "empty_text" THEN ""
    ELSE "None"

\* line 168: element.get_text(separator="\n", strip=True) + "\n\n"
GetText(page, i, j) == IF page[i][j] THEN <<i, j>> ELSE <<>>

\* lines 166-168, for selector i: the texts of its elements, one after another
RECURSIVE ElementsFrom(_, _, _)
ElementsFrom(page, i, j) ==
    IF j > Len(page[i]) THEN <<>>
    ELSE <<GetText(page, i, j)>> \o ElementsFrom(page, i, j + 1)

\* lines 164-168: every selector adds to the same string
RECURSIVE SelectorsFrom(_, _)
SelectorsFrom(page, i) ==
    IF i > NumRules THEN <<>>
    ELSE ElementsFrom(page, i, 1) \o SelectorsFrom(page, i + 1)

\* line 171: str.strip()
RECURSIVE Strip(_)
Strip(content) ==
    IF content = <<>> THEN <<>>
    ELSE IF Head(content) = <<>> THEN Strip(Tail(content))
    ELSE IF content[Len(content)] = <<>> THEN Strip(SubSeq(content, 1, Len(content) - 1))
    ELSE content

NoContent == [kind |-> "None", content |-> <<>>]
NotExtracted == [kind |-> "none", content |-> <<>>]

\* lines 156-177.  parse is whether BeautifulSoup and the selectors work.
ExtractArticleContent(page, fetch, parse) ==
    IF FetchUrl(fetch) \in {"None", ""} THEN NoContent
    ELSE IF parse = "raises" THEN NoContent
    ELSE LET content == Strip(SelectorsFrom(page, 1))
         IN IF content # <<>> THEN [kind |-> "str", content |-> content]
            ELSE NoContent

ParseOutcomes == {"ok", "raises"}

ExtractIdle ==
    /\ ex_pc = "idle"
    /\ ex_page = <<>>
    /\ ex_fetch = NA
    /\ ex_parse = NA
    /\ ex_result = NotExtracted

ExtractInit ==
    /\ ex_pc = "start"
    /\ ex_page \in Pages
    /\ ex_fetch = NA
    /\ ex_parse = NA
    /\ ex_result = NotExtracted

ExtractCall(fetch, parse) ==
    /\ ex_pc = "start"
    /\ ex_fetch' = fetch
    /\ ex_parse' = parse
    /\ ex_result' = ExtractArticleContent(ex_page, fetch, parse)
    /\ ex_pc' = "returned"
    /\ UNCHANGED <<ex_page, notExtract>>

ExtractNext == \E fetch \in FetchOutcomes, parse \in ParseOutcomes : ExtractCall(fetch, parse)

--------------------------------------------------------------------------
(* BBCCollector.collect and ReutersCollector.collect (bbc_collector.py:   *)
(* 48-93, reuters_collector.py:48-93), with BaseCollector.parse_rss_feed  *)
(* and extract_articles_from_page (base_collector.py:91-251)              *)
(*                                                                        *)
(* A feed is the sequence of its entries, each with a link (TRUE) or      *)
(* without; a listing page is the sequence of its article elements, each  *)
(* with a title and a link (TRUE) or lacking one of them.                 *)

Listings == SeqsUpTo(BOOLEAN, MaxListing)
Article(origin, i) == [origin |-> origin, entry |-> i, content |-> ""]

\* base_collector.py:113-136 and 211-246: the first max_articles entries,
\* those without a link (or title) skipped
RECURSIVE Listed(_, _, _)
Listed(origin, listing, i) ==
    IF i > Min2(Len(listing), max_articles) THEN <<>>
    ELSE (IF listing[i] THEN <<Article(origin, i)>> ELSE <<>>)
             \o Listed(origin, listing, i + 1)

\* base_collector.py:101-143
ParseRssFeed(fetch, feed) ==
    IF FetchUrl(fetch) \in {"None", ""} THEN <<>> ELSE Listed("feed", feed, 1)

\* base_collector.py:199-251
ExtractArticlesFromPage(fetch, page) ==
    IF FetchUrl(fetch) \in {"None", ""} THEN <<>> ELSE Listed("page", page, 1)

\* bbc_collector.py:62: if not articles
NeedsPageAlways(articles) == TRUE
NeedsPage(articles) == articles = <<>>

\* What a call gave: a list, an exception, or nothing yet
ListOf(articles) == [kind |-> "list", articles |-> articles]
NotCalled == [kind |-> "not called", articles |-> <<>>]
Raised == [kind |-> "raised", articles |-> <<>>]
NoList == [kind |-> "none", articles |-> <<>>]

CollectorIdle ==
    /\ col_pc = "idle"
    /\ col_feed = NotCalled
    /\ col_page = NotCalled
    /\ col_articles = <<>>
    /\ col_bodies = <<>>
    /\ col_result = NoList

CollectorInit ==
    /\ col_pc = "start"
    /\ col_feed = NotCalled
    /\ col_page = NotCalled
    /\ col_articles = <<>>
    /\ col_bodies = <<>>
    /\ col_result = NoList

\* bbc_collector.py:91-93: the handler of the call
CollectorHandler ==
    /\ col_result' = ListOf(<<>>)
    /\ col_pc' = "returned"

\* bbc_collector.py:58-62.  raises is for a parse_rss_feed that raises, as
\* the mock of test_collectors.py:137-143 does.
ReadFeed(fetch, feed, raises) ==
    /\ col_pc = "start"
    /\ IF raises
         THEN /\ col_feed' = Raised
              /\ CollectorHandler
              /\ UNCHANGED col_articles
         ELSE LET articles == ParseRssFeed(fetch, feed) IN
                /\ col_feed' = ListOf(articles)
                /\ col_articles' = articles
                /\ col_pc' = IF NeedsPage(articles) THEN "page" ELSE "bodies"
                /\ UNCHANGED col_result
    /\ UNCHANGED <<col_page, col_bodies, notCollector>>

\* bbc_collector.py:63-69
ScrapePage(fetch, page, raises) ==
    /\ col_pc = "page"
    /\ IF raises
         THEN /\ col_page' = Raised
              /\ CollectorHandler
              /\ UNCHANGED col_articles
         ELSE LET articles == ExtractArticlesFromPage(fetch, page) IN
                /\ col_page' = ListOf(articles)
                /\ col_articles' = articles
                /\ col_pc' = "bodies"
                /\ UNCHANGED col_result
    /\ UNCHANGED <<col_feed, col_bodies, notCollector>>

\* bbc_collector.py:72-86, for the next article: extract_article_content
\* returns text or None, or raises into the handler of line 85
BodyOutcomes == {"text", "None", "raises"}
FetchBody(body) ==
    /\ col_pc = "bodies"
    /\ Len(col_bodies) < Len(col_articles)
    /\ LET i == Len(col_bodies) + 1 IN
         col_articles' =
             IF body = "text" THEN [col_articles EXCEPT ![i].content = "text"]
             ELSE col_articles
    /\ col_bodies' = Append(col_bodies, body)
    /\ UNCHANGED <<col_pc, col_feed, col_page, col_result, notCollector>>

\* bbc_collector.py:88-89
CollectorReturn ==
    /\ col_pc = "bodies"
    /\ Len(col_bodies) = Len(col_articles)
    /\ col_result' = ListOf(col_articles)
    /\ col_pc' = "returned"
    /\ UNCHANGED <<col_feed, col_page, col_articles, col_bodies, notCollector>>

CollectorNext ==
    \/ \E fetch \in FetchOutcomes, feed \in Listings, raises \in BOOLEAN :
          ReadFeed(fetch, feed, raises)
    \/ \E fetch \in FetchOutcomes, page \in Listings, raises \in BOOLEAN :
          ScrapePage(fetch, page, raises)
    \/ \E body \in BodyOutcomes : FetchBody(body)
    \/ CollectorReturn

--------------------------------------------------------------------------
(* AIProcessor.get_geolocation (ai_processor.py:288-332)                  *)

\* What stands under "latitude" or "longitude" in an answer: a number,
\* null, a string, or nothing
CoordinateValues == {"51.5", "null", "north"}
Missing == "missing"
Coordinates(lat, lon) ==
    [fields |-> (IF lat # Missing THEN {"latitude"} ELSE {})
                   \cup (IF lon # Missing THEN {"longitude"} ELSE {}),
     latitude |-> lat, longitude |-> lon]
GeoObjects ==
    {Coordinates(lat, lon) : lat \in CoordinateValues \cup {Missing},
                             lon \in CoordinateValues \cup {Missing}}
GeoValues ==
    {JObj(d) : d \in GeoObjects} \cup {JOther(k) : k \in JsonKinds \ {"obj"}}
GeoTexts ==
    {ResponseText(NoMatch, BraceOf(j), j) : j \in GeoValues}
    \cup {ResponseText(j, BraceOf(j), Garbage) : j \in GeoValues}
    \cup {ResponseText(NoMatch, JObj(d), Garbage) : d \in GeoObjects}
    \cup {ResponseText(Garbage, JObj(d), Garbage) : d \in GeoObjects}
GeoBehaviours ==
    {[b |-> x, text |-> ResponseText(NoMatch, NoMatch, Garbage)] :
        x \in Unreachable \cup {"body_not_json", "body_not_object",
                                "response_missing", "response_null"}}
    \cup {[b |-> "response_text", text |-> t] : t \in GeoTexts}

\* lines 300-320: the prompt.  It has none of the keywords of the fallback,
\* and its ```json blocks stand in the sentences the fallback copies into
\* its description, where json.dumps writes their line ends as \n.
GeoPromptWords == 53
GeoPrompt(country, city) ==
    [kw |-> {}, words |-> GeoPromptWords + (IF city = "None" THEN 1 ELSE 2),
     lead |-> "garbage"]

\* line 328: dict.get; a JSON null is None
GeoGet(d, key) ==
    IF key \in d.fields /\ d[key] # "null" THEN d[key] ELSE "None"

\* lines 322-331.  A value that is no dict has no .get, and None is no
\* string for re.search: both end in the handler of line 329.
GetGeolocationResult(resp) ==
    LET extracted == ExtractJsonFromResponse(resp) IN
      IF extracted.t = "raise" \/ extracted.j.k # "obj"
        THEN [kind |-> "returned", latitude |-> "None", longitude |-> "None"]
        ELSE [kind |-> "returned",
              latitude |-> GeoGet(extracted.j.v, "latitude"),
              longitude |-> GeoGet(extracted.j.v, "longitude")]

NoGeo == [kind |-> "none", latitude |-> "None", longitude |-> "None"]

GeoIdle ==
    /\ geo_pc = "idle"
    /\ geo_city = "None"
    /\ geo_behaviour = NoBehaviour
    /\ geo_result = NoGeo

GeoInit ==
    /\ geo_pc = "start"
    /\ geo_city \in {"None", "Paris"}
    /\ geo_behaviour = NoBehaviour
    /\ geo_result = NoGeo

\* get_geolocation(country, city) up to the await of session.post
GeoCall ==
    /\ geo_pc = "start"
    /\ geo_pc' = "requesting"
    /\ UNCHANGED <<geo_city, geo_behaviour, geo_result, notGeo>>

\* The request ends, and get_geolocation runs on to its return.
GeoReply(bhv) ==
    /\ geo_pc = "requesting"
    /\ geo_behaviour' = bhv
    /\ geo_result' =
          GetGeolocationResult(MakeOllamaRequest(GeoPrompt("France", geo_city), bhv))
    /\ geo_pc' = geo_result'.kind
    /\ UNCHANGED <<geo_city, notGeo>>

GeoNext ==
    \/ GeoCall
    \/ \E bhv \in GeoBehaviours : GeoReply(bhv)

--------------------------------------------------------------------------
(* ConnectionManager and websocket_endpoint (websocket.py:21-157)         *)
(*                                                                        *)
(* Every connection is a task of the event loop running                   *)
(* websocket_endpoint on a WebSocket object of its own; one more task     *)
(* runs ConnectionManager.broadcast.  A task runs alone from one await to *)
(* the next.  client_subscriptions is a dict: its entries stand in the    *)
(* order they were inserted, a deleted key leaves a dummy entry, and an   *)
(* iterator over it holds a position, the number of items it has still to *)
(* give and the size of the dict when it was made.                        *)

Sockets == 1..NumSockets
\* the topics of a client, a list of which only membership is used
TopicLists == {{"all"}, {"threats"}}
BroadcastTopics == {"all", "threats", "alerts"}

Dummy == [ws |-> 0, topics |-> {}]
Item(w, topics) == [ws |-> w, topics |-> topics]
Keys(d) == {d[k].ws : k \in DOMAIN d} \ {0}
\* len(d)
Used(d) == Cardinality(Keys(d))
\* d[w] = topics
SetItem(d, w, topics) ==
    IF w \in Keys(d)
      THEN [k \in DOMAIN d |-> IF d[k].ws = w THEN Item(w, topics) ELSE d[k]]
      ELSE Append(d, Item(w, topics))
\* del d[w]
DelItem(d, w) == [k \in DOMAIN d |-> IF d[k].ws = w THEN Dummy ELSE d[k]]
\* list.remove(w): the first w of the list is taken out
RECURSIVE Remove(_, _)
Remove(list, w) ==
    IF list = <<>> THEN <<>>
    ELSE IF Head(list) = w THEN Tail(list)
    ELSE <<Head(list)>> \o Remove(Tail(list), w)
Elements(list) == {list[k] : k \in DOMAIN list}

\* lines 25-27
SocketInit ==
    /\ active_connections = <<>>
    /\ client_subscriptions = <<>>
    /\ ws_pc = [w \in Sockets |-> "new"]
    /\ bc = [pc |-> "idle", topic |-> "all", pos |-> 1, len |-> 0, used |-> 0,
             to |-> 0, owed |-> {}]
SocketIdle == SocketInit

\* line 77
Subscribed(topics, topic) == topic = "all" \/ topic \in topics \/ "all" \in topics

\* bc.owed is who the broadcast has still to send to: the clients that
\* were subscribed to its topic when it started, less those it has sent to
\* (the send returned or raised) and less those whose own task has since
\* changed or ended their registration.
Touch(w) == IF bc.pc = "sending" THEN [bc EXCEPT !.owed = @ \ {w}] ELSE bc

\* lines 58-62
Disconnect(w) ==
    /\ active_connections' =
          IF w \in Elements(active_connections)
            THEN Remove(active_connections, w) ELSE active_connections
    /\ client_subscriptions' =
          IF w \in Keys(client_subscriptions)
            THEN DelItem(client_subscriptions, w) ELSE client_subscriptions

\* websocket_endpoint is entered: lines 104-107 and 38-40, up to the await
\* of the welcome message.  accepted is whether websocket.accept() returns;
\* when it raises, the exception leaves websocket_endpoint at line 107.
Connect(w, topics, accepted) ==
    /\ ws_pc[w] = "new"
    /\ IF accepted
         THEN /\ active_connections' = Append(active_connections, w)
              /\ client_subscriptions' = SetItem(client_subscriptions, w, topics)
              /\ ws_pc' = [ws_pc EXCEPT ![w] = "welcoming"]
              /\ bc' = Touch(w)
         ELSE /\ ws_pc' = [ws_pc EXCEPT ![w] = "refused"]
              /\ UNCHANGED <<active_connections, client_subscriptions, bc>>
    /\ UNCHANGED notSocket

\* lines 44-49 and 107-113: send_json of the welcome message returns and the
\* loop waits for a message, or it raises: line 107 is before the try of
\* line 109, so the exception leaves websocket_endpoint.
Welcome(w, sent) ==
    /\ ws_pc[w] = "welcoming"
    /\ ws_pc' = [ws_pc EXCEPT ![w] = IF sent THEN "receiving" ELSE "unwelcomed"]
    /\ UNCHANGED <<active_connections, client_subscriptions, bc, notSocket>>

\* What receive_text gives (line 113): a text, or WebSocketDisconnect.
\* A subscribe message carries a list of topics or something else.
Messages ==
    {[type |-> t, topics |-> {}, list |-> FALSE] :
        t \in {"disconnect", "ping", "unknown", "invalid json", "subscribe"}}
    \cup {[type |-> "subscribe", topics |-> l, list |-> TRUE] : l \in TopicLists}

\* lines 113-157: one message.  replied is whether the send_json that
\* answers it returns; an exception of it is caught at line 154.
Receive(w, message, replied) ==
    /\ ws_pc[w] = "receiving"
    /\ IF message.type = "disconnect"
         THEN /\ Disconnect(w)
              /\ ws_pc' = [ws_pc EXCEPT ![w] = "disconnected"]
              /\ bc' = Touch(w)
         ELSE IF message.type = "subscribe" /\ ~message.list
           THEN UNCHANGED <<active_connections, client_subscriptions, ws_pc, bc>>
         ELSE LET subs == IF message.type = "subscribe"
                            THEN SetItem(client_subscriptions, w, message.topics)
                            ELSE client_subscriptions
              IN IF replied
                   THEN /\ client_subscriptions' = subs
                        /\ bc' = IF message.type = "subscribe" THEN Touch(w) ELSE bc
                        /\ UNCHANGED <<active_connections, ws_pc>>
                   ELSE /\ active_connections' = Remove(active_connections, w)
                        /\ client_subscriptions' = DelItem(subs, w)
                        /\ ws_pc' = [ws_pc EXCEPT ![w] = "failed"]
                        /\ bc' = Touch(w)
    /\ UNCHANGED notSocket

\* the first entry of d at or after pos that is no dummy, 0 when none is
NextEntry(d, pos) ==
    IF \E k \in DOMAIN d : k >= pos /\ d[k] # Dummy
      THEN CHOOSE k \in DOMAIN d :
              /\ k >= pos /\ d[k] # Dummy
              /\ \A h \in DOMAIN d : (h >= pos /\ h < k) => d[h] = Dummy
      ELSE 0

\* lines 76-79: the loop over client_subscriptions.items() goes on from the
\* iterator of b up to the next send_json, or ends.  The iterator raises
\* RuntimeError when the size of the dict is not what it was, and when it
\* has given all its items and finds one more.  With the loop the iterator
\* is gone.
Ended(b, how) == [b EXCEPT !.pc = how, !.to = 0, !.pos = 1, !.len = 0, !.used = 0]
RECURSIVE Iterate(_, _)
Iterate(d, b) ==
    IF b.used # Used(d) THEN Ended(b, "raised")
    ELSE LET k == NextEntry(d, b.pos) IN
      IF k = 0 THEN Ended(b, "returned")
      ELSE IF b.len = 0 THEN Ended(b, "raised")
      ELSE LET next == [b EXCEPT !.pos = k + 1, !.len = @ - 1] IN
        IF Subscribed(d[k].topics, b.topic)
          THEN [next EXCEPT !.pc = "sending", !.to = d[k].ws]
          ELSE Iterate(d, next)

\* broadcast(message, topic) is called: lines 73-79
Broadcast(topic) ==
    /\ bc.pc = "idle"
    /\ bc' = Iterate(client_subscriptions,
                     [bc EXCEPT !.topic = topic, !.pos = 1,
                                !.len = Used(client_subscriptions),
                                !.used = Used(client_subscriptions),
                                !.owed =
                                   {client_subscriptions[k].ws :
                                      k \in {h \in DOMAIN client_subscriptions :
                                               /\ client_subscriptions[h] # Dummy
                                               /\ Subscribed(client_subscriptions[h].topics, topic)}}])
    /\ UNCHANGED <<active_connections, client_subscriptions, ws_pc, notSocket>>

\* lines 79-81 and 76: the send_json of the broadcast returns, or raises
\* and is logged, and the loop goes on.
SendReturn(sent) ==
    /\ bc.pc = "sending"
    /\ bc' = Iterate(client_subscriptions, [bc EXCEPT !.owed = @ \ {bc.to}])
    /\ UNCHANGED <<active_connections, client_subscriptions, ws_pc, notSocket>>

SocketNext ==
    \/ \E w \in Sockets, topics \in TopicLists, accepted \in BOOLEAN :
          Connect(w, topics, accepted)
    \/ \E w \in Sockets, sent \in BOOLEAN : Welcome(w, sent)
    \/ \E w \in Sockets, message \in Messages, replied \in BOOLEAN :
          Receive(w, message, replied)
    \/ \E topic \in BroadcastTopics : Broadcast(topic)
    \/ \E sent \in BOOLEAN : SendReturn(sent)

--------------------------------------------------------------------------
(* Specifications *)

InitEngine == EngineInit /\ FallbackIdle /\ AnalyzeIdle /\ SweepIdle /\ CollectIdle
    /\ SocketIdle
    /\ GeoIdle
    /\ CollectorIdle
    /\ ExtractIdle
    /\ EnrichIdle
    /\ StatusIdle
SpecEngine == InitEngine /\ [][EngineNext]_vars

InitAnalyze == AnalyzeInit /\ EngineInit /\ FallbackIdle /\ SweepIdle /\ CollectIdle
    /\ SocketIdle
    /\ GeoIdle
    /\ CollectorIdle
    /\ ExtractIdle
    /\ EnrichIdle
    /\ StatusIdle
SpecAnalyze == InitAnalyze /\ [][AnalyzeNext]_vars

InitFallback == FallbackInit /\ EngineInit /\ AnalyzeIdle /\ SweepIdle /\ CollectIdle
    /\ SocketIdle
    /\ GeoIdle
    /\ CollectorIdle
    /\ ExtractIdle
    /\ EnrichIdle
    /\ StatusIdle
FallbackNext == FallbackCall
SpecFallback == InitFallback /\ [][FallbackNext]_vars

InitSweep == SweepInit /\ EngineInit /\ FallbackIdle /\ AnalyzeIdle /\ CollectIdle
    /\ SocketIdle
    /\ GeoIdle
    /\ CollectorIdle
    /\ ExtractIdle
    /\ EnrichIdle
    /\ StatusIdle
SpecSweep == InitSweep /\ [][SweepNext]_vars
\* The sweeps from the start: every source is active and none has been
\* collected yet.
InitSweepLive == InitSweep
    /\ \A s \in SourceIds :
          db_sources[s].is_active /\ db_sources[s].last_collected_at = None
SpecSweepLive == InitSweepLive /\ [][SweepLiveNext]_vars /\ SweepFairness

InitCollect == CollectInit /\ EngineInit /\ FallbackIdle /\ AnalyzeIdle /\ SweepIdle
    /\ SocketIdle
    /\ GeoIdle
    /\ CollectorIdle
    /\ ExtractIdle
    /\ EnrichIdle
    /\ StatusIdle
SpecCollect == InitCollect /\ [][CollectNext]_vars

InitStatus == StatusInit /\ EngineInit /\ FallbackIdle /\ AnalyzeIdle /\ SweepIdle
    /\ SocketIdle
    /\ GeoIdle
    /\ CollectorIdle
    /\ ExtractIdle
    /\ EnrichIdle
    /\ CollectIdle
SpecStatus == InitStatus /\ [][StatusNext]_vars
InitStatusLive == InitStatus
    /\ SocketIdle
SpecStatusLive == InitStatusLive /\ [][StatusNext]_vars /\ StatusFairness

InitEnrich == EnrichInit /\ EngineInit /\ FallbackIdle /\ AnalyzeIdle /\ SweepIdle
    /\ SocketIdle
    /\ GeoIdle
    /\ CollectorIdle
    /\ ExtractIdle
    /\ CollectIdle /\ StatusIdle
SpecEnrich == InitEnrich /\ [][EnrichNext]_vars

InitExtract == ExtractInit /\ EngineInit /\ FallbackIdle /\ AnalyzeIdle /\ SweepIdle
    /\ SocketIdle
    /\ GeoIdle
    /\ CollectorIdle
    /\ CollectIdle /\ StatusIdle /\ EnrichIdle
SpecExtract == InitExtract /\ [][ExtractNext]_vars

InitCollector == CollectorInit /\ EngineInit /\ FallbackIdle /\ AnalyzeIdle /\ SweepIdle
    /\ SocketIdle
    /\ GeoIdle
    /\ CollectIdle /\ StatusIdle /\ EnrichIdle /\ ExtractIdle
SpecCollector == InitCollector /\ [][CollectorNext]_vars

InitGeo == GeoInit /\ EngineInit /\ FallbackIdle /\ AnalyzeIdle /\ SweepIdle
    /\ SocketIdle
    /\ CollectIdle /\ StatusIdle /\ EnrichIdle /\ ExtractIdle /\ CollectorIdle
SpecGeo == InitGeo /\ [][GeoNext]_vars

InitSocket == SocketInit /\ EngineInit /\ FallbackIdle /\ AnalyzeIdle /\ SweepIdle
    /\ CollectIdle /\ StatusIdle /\ EnrichIdle /\ ExtractIdle /\ CollectorIdle
    /\ GeoIdle
SpecSocket == InitSocket /\ [][SocketNext]_vars


--------------------------------------------------------------------------
(* Claims about the throttle *)

Dispatches == {<<c, k>> : c \in Callers, k \in 1..2}
Dispatched(d) == d[2] <= Len(dlog[d[1]])
At(d) == dlog[d[1]][d[2]]
Gap(a, b) == IF a >= b THEN a - b ELSE b - a

\* C2: every two dispatches to the inference service, by whichever callers,
\* are at least processing_delay apart.
C2_AllDispatchesSpaced ==
    \A d1 \in Dispatches, d2 \in Dispatches :
        (d1 # d2 /\ Dispatched(d1) /\ Dispatched(d2))
            => Gap(At(d1), At(d2)) >= processing_delay

\* C3: two calls issued one after the other by one caller are dispatched at
\* least processing_delay apart, whatever the outcome of the first.
C3_ConsecutiveCallsSpaced ==
    \A c \in Callers : \A k \in 1..(Len(dlog[c]) - 1) :
        dlog[c][k + 1] - dlog[c][k] >= processing_delay

\* A caller whose first call failed has dispatched a second call, and had to
\* sleep for it.
C3_Witness ==
    \E c \in Callers :
        /\ Len(dlog[c]) = 2
        /\ cpc[c] = "posting"
        /\ outcome[c] \in {"http_error", "timeout"}
        /\ dlog[c][2] = dlog[c][1] + processing_delay

--------------------------------------------------------------------------
(* Claims about analyze_article *)

Finished == apc \in {"returned", "raised"}
result == analysis.value

\* C4: analyze_article never raises: whatever the text and whatever the
\* inference service does, the call returns a result value.
C4_AnalyzeNeverRaises == apc # "raised"

\* C5: every result analyze_article returns has a category among the six
\* ThreatCategory values, a severity in 1..10 and a confidence score in
\* [0,1].
C5_ResultInRange ==
    apc = "returned" =>
        /\ {"category", "severity", "confidence_score"} \subseteq result.fields
        /\ result.category \in ThreatCategoryValues
        /\ result.severity \in 1..10
        /\ result.confidence_score \in 0..100

\* C6: with the inference service unreachable (transport error, timeout or
\* a status other than 200), the result has degraded = true, a confidence
\* score of 0.3 and the status monitoring.  (Stated for the texts whose
\* first sentence holds no ```json block.)
C6_UnreachableIsDegraded ==
    (Finished /\ behaviour.b \in Unreachable /\ article_text.lead = "none") =>
        /\ apc = "returned"
        /\ {"degraded", "confidence_score", "status"} \subseteq result.fields
        /\ result.confidence_score = 30
        /\ result.status = "monitoring"

\* C7: when the service answers but its response text does not parse, the
\* result is a fallback analysis: it has the assessment fields, a keyword
\* category, a density severity and the low confidence.
Unparseable ==
    /\ response.t = "str"
    /\ ~response.fallback
    /\ json_str(response.text).k = "garbage"
C7_UnparseableFallsBack ==
    (Finished /\ Unparseable) =>
        /\ apc = "returned"
        /\ AnalysisFields \subseteq result.fields
        /\ result.category \in ThreatCategoryValues
        /\ result.severity \in 1..10
        /\ result.confidence_score = 30

\* C9: when analyze_article falls back, the category and the severity of
\* the result are those of the article text it was given: its own keyword
\* hits and its own word count.  (Stated for the texts whose first sentence
\* holds no ```json block.)
C9_FallbackReadsArticle ==
    (Finished /\ response.fallback /\ article_text.lead = "none") =>
        /\ apc = "returned"
        /\ result.category = primary_category(article_text)
        /\ result.severity = Severity(total_matches(article_text), article_text.words)

--------------------------------------------------------------------------
(* Claims about _fallback_analysis *)

FallbackDone == fb_out # EmptyDict
Hits(c) == Cardinality({k \in keywords[c] : k \in fb_text.kw})
TotalHits ==
    Hits("political_unrest") + Hits("transport_disruption")
    + Hits("weather_emergency") + Hits("security_incident")
    + Hits("economic_impact") + Hits("health_emergency")
Declared(c) == CHOOSE i \in 1..Len(ThreatCategoryOrder) : ThreatCategoryOrder[i] = c

\* C8: the fallback category has the most keyword hits in the text, and
\* among the categories with that many hits (all zero included) it is the
\* one declared first.
C8_CategoryIsFirstArgmax ==
    FallbackDone =>
        /\ fb_out.category \in ThreatCategoryValues
        /\ \A c \in ThreatCategoryValues :
              /\ Hits(c) <= Hits(fb_out.category)
              /\ (Hits(c) = Hits(fb_out.category)
                    => Declared(fb_out.category) <= Declared(c))

\* Two categories tie on a positive count and the earlier one is returned.
C8_Witness ==
    /\ FallbackDone
    /\ Hits("transport_disruption") = 1
    /\ Hits("security_incident") = 1
    /\ Hits("political_unrest") = 0
    /\ fb_out.category = "transport_disruption"

Clamp(lo, hi, x) == IF x < lo THEN lo ELSE IF x > hi THEN hi ELSE x
Floor(num, den) == CHOOSE q \in 0..num : q * den <= num /\ num < (q + 1) * den
RoundHalfUp(num, den) ==
    IF 2 * (num - Floor(num, den) * den) >= den
      THEN Floor(num, den) + 1 ELSE Floor(num, den)
RoundHalfEven(num, den) ==
    IF 2 * (num - Floor(num, den) * den) = den /\ Floor(num, den) % 2 = 0
      THEN Floor(num, den) ELSE RoundHalfUp(num, den)

\* C10, as claimed: the fallback severity is
\* clamp(1, 10, round(100 * totalHits / wordCount)), and 1 for a text with
\* no words (round taken half-up or half-to-even).
C10_SeverityRounds ==
    FallbackDone =>
        IF fb_text.words = 0 THEN fb_out.severity = 1
        ELSE fb_out.severity \in
                {Clamp(1, 10, RoundHalfUp(100 * TotalHits, fb_text.words)),
                 Clamp(1, 10, RoundHalfEven(100 * TotalHits, fb_text.words))}

\* C10, as amended: the fallback severity is
\* clamp(1, 10, floor(100 * totalHits / wordCount)), and 1 for a text with
\* no words.
C10_SeverityTruncates ==
    FallbackDone =>
        IF fb_text.words = 0 THEN fb_out.severity = 1
        ELSE fb_out.severity = Clamp(1, 10, Floor(100 * TotalHits, fb_text.words))

\* A density whose fraction is above one half, inside the clamp: 100/13.
C10_Witness ==
    /\ FallbackDone
    /\ fb_text.words > 0
    /\ 2 * ((100 * TotalHits) % fb_text.words) > fb_text.words
    /\ fb_out.severity \in 2..9

--------------------------------------------------------------------------
(* Claims about run_collection *)

\* C1: a run_collection call made while another call on the manager is in
\* progress returns the already_running report, and over the two calls no
\* source is collected twice: once the sweep in progress has completed,
\* collect_from_source has been called once for each source it selected and
\* did not skip, and for no other.
C1_SecondCallRejected ==
    \A j \in Invocations : inv[j].during # 0 =>
        LET i == inv[j].during IN
          /\ inv[j].pc = "returned"
          /\ inv[j].report.status = "already_running"
          /\ \A s \in SourceIds : collects[i][s] + collects[j][s] <= 1
          /\ (inv[i].pc = "returned" /\ inv[i].report.status = "completed") =>
                \A s \in SourceIds :
                    collects[i][s] + collects[j][s]
                        = IF s \in inv[i].eligible THEN 1 ELSE 0

\* A second call came while the first was collecting; the first has since
\* completed a sweep over two sources.
C1_Witness ==
    \E i \in Invocations, j \in Invocations :
        /\ inv[j].during = i
        /\ inv[j].report.status = "already_running"
        /\ inv[i].report.status = "completed"
        /\ Cardinality(inv[i].eligible) = 2
        /\ \A s \in SourceIds : collects[i][s] = 1

\* A source that was collected less than collection_frequency ago.
Recent(s) ==
    /\ db_sources[s].last_collected_at # None
    /\ utcnow - db_sources[s].last_collected_at < collection_frequency
Forced(i) == inv[i].source_id # None
Attempted(i, s) == collects[i][s] > 0

\* C11: in a sweep without source_id, collect_from_source is never called
\* for a source whose last_collected_at is set and less than
\* collection_frequency before now.
C11_RecentSourceNotCollected ==
    \A i \in Invocations :
        (inv[i].pc = "collecting" /\ ~Forced(i)) => ~Recent(Head(inv[i].todo).id)

\* A sweep without source_id passed an active source collected one unit ago
\* and is collecting the next one.
C11_Witness ==
    \E i \in Invocations, s \in SourceIds :
        /\ inv[i].pc = "collecting"
        /\ ~Forced(i)
        /\ s < Head(inv[i].todo).id
        /\ db_sources[s].is_active
        /\ Recent(s)
        /\ ~Attempted(i, s)

\* C12: a sweep with source_id collects from no other source, and from that
\* one only if it is active, then however recently it was collected; when
\* source_id names an inactive or unknown source and the listing succeeds,
\* the report is completed with all counts zero and nothing is collected.
ZeroReport == [NoReport EXCEPT !.status = "completed"]
C12_ForcedSweepSelection ==
    \A i \in Invocations : (Forced(i) /\ inv[i].during = 0 /\ inv[i].pc # "idle") =>
        LET id == inv[i].source_id IN
          /\ \A s \in SourceIds : Attempted(i, s) => (s = id /\ db_sources[s].is_active)
          /\ (id \in SourceIds /\ db_sources[id].is_active /\ inv[i].report.status # "error")
                => Attempted(i, id)
          /\ (id \notin SourceIds \/ ~db_sources[id].is_active) =>
                /\ inv[i].pc = "returned"
                /\ inv[i].report \in {ZeroReport, [NoReport EXCEPT !.status = "error"]}
                /\ \A s \in SourceIds : ~Attempted(i, s)

\* A sweep forced on a source collected one unit ago is collecting it and
\* has passed over an active source that was never collected.
C12_Witness ==
    \E i \in Invocations, s \in SourceIds :
        /\ Forced(i)
        /\ inv[i].pc = "collecting"
        /\ Recent(inv[i].source_id)
        /\ Attempted(i, inv[i].source_id)
        /\ s < inv[i].source_id
        /\ db_sources[s].is_active
        /\ db_sources[s].last_collected_at = None
        /\ ~Attempted(i, s)

\* C16: run_collection never raises: every call that is over has returned
\* a report, whether the listing of the sources or any collect_from_source
\* call failed or raised.
C16_RunCollectionReturns ==
    \A i \in Invocations :
        /\ inv[i].pc # "raised"
        /\ inv[i].pc = "returned" =>
              inv[i].report.status \in {"completed", "error", "already_running"}

\* A sweep was ended by an exception out of collect_from_source after it
\* had collected a source, and returned the error report.
C16_Witness ==
    \E i \in Invocations :
        /\ inv[i].pc = "returned"
        /\ inv[i].report.status = "error"
        /\ inv[i].nresults = 1

\* C17: a failure while one source is handled does not abort the sweep: a
\* sweep that is over has left no listed source that it would not have
\* skipped unattempted.
C17_LaterSourcesAttempted ==
    \A i \in Invocations : inv[i].pc = "returned" => inv[i].todo = <<>>

--------------------------------------------------------------------------
(* Claims about collect_from_source *)

Entries == 1..Len(handled)
Case(k) == handled[k].entry
NotFetched(k) == Case(k).link /\ Case(k).fetch # "text"
Assessed(k) ==
    /\ Case(k).link
    /\ Case(k).fetch = "text"
    /\ Case(k).extract = "ok"
    /\ Case(k).analysis.kind = "returned"
Passes(k) ==
    /\ Assessed(k)
    /\ {"severity", "missionary_relevance"} \subseteq Case(k).analysis.value.fields
    /\ Case(k).analysis.value.severity >= 2
    /\ Case(k).analysis.value.missionary_relevance >= 20
HasThreat(k) == \E t \in 1..Len(threats) : threats[t].article = k
Number(S) == Cardinality(S)
JustHandled == Len(handled') = Len(handled) + 1
Last == handled'[Len(handled')].entry

\* C13: a threat is persisted for an article exactly when its body was
\* fetched and its assessment has severity >= 2 and relevance >= 20 (and
\* the store takes the row); an article the filter rejects gets no row and
\* is not among the errors.
C13_PersistedIffPassesFilter ==
    /\ \A k \in Entries : HasThreat(k) <=> (Passes(k) /\ Case(k).store = "ok")
    /\ errors + Number({k \in Entries : Assessed(k) /\ ~Passes(k)}) <= Len(handled)

\* Two articles were fetched: one at the thresholds has its row, one just
\* below the relevance threshold has none, and no error is counted.
C13_Witness ==
    /\ Len(handled) = 2
    /\ \E k \in Entries :
          /\ HasThreat(k)
          /\ Case(k).analysis.value.severity = 2
          /\ Case(k).analysis.value.missionary_relevance = 20
    /\ \E k \in Entries :
          /\ Assessed(k)
          /\ Case(k).analysis.value.severity = 2
          /\ Case(k).analysis.value.missionary_relevance = 19
          /\ ~HasThreat(k)
    /\ errors = 0

\* C14: in the report of a sweep, articles_processed is the number of
\* threats persisted during the sweep.
C14_ProcessedCountsPersisted ==
    cf_pc = "returned" => SweepReport(cf_result).articles_processed = Len(threats)

\* C15: when a per-source attempt is over, however it ended, exactly one
\* counter of the source was incremented by one: successful_collections if
\* an article was collected, failed_collections otherwise.
C15_OneCounterIncremented ==
    cf_pc \in {"returned", "raised"} =>
        /\ db_source.successful_collections + db_source.failed_collections = 1
        /\ db_source.successful_collections = 1 <=> articles_collected > 0

\* C18: an accepted article whose threat could not be persisted is counted
\* in errors and not in articles_processed, and the entries after it are
\* still handled.
StoreFailed == {k \in Entries : Passes(k) /\ Case(k).store = "fails"}
C18_StoreFailureCounted ==
    /\ errors >= Number(StoreFailed)
    /\ articles_processed + Number(StoreFailed) <= Len(handled)
    /\ cf_pc \in {"statistics", "returned", "raised"} => feed_left = 0

\* C19: when the body of an entry cannot be fetched, errors goes up by one,
\* analyze_article is not called for it, nothing is collected or persisted
\* for it, and the loop goes on to the next entry.
C19_FetchFailureSkipsArticle ==
    [][(JustHandled /\ Last.link /\ Last.fetch # "text") =>
          /\ errors' = errors + 1
          /\ ~handled'[Len(handled')].analyzed
          /\ threats' = threats
          /\ articles_collected' = articles_collected
          /\ articles_processed' = articles_processed
          /\ feed_left' = feed_left - 1
          /\ feed_left' > 0 => cf_pc' = "articles"]_vars

\* An entry whose fetch timed out was followed by an article that was
\* analysed and persisted.
C19_Witness ==
    /\ Len(handled) = 2
    /\ Case(1).fetch = "timeout"
    /\ ~handled[1].analyzed
    /\ handled[2].analyzed
    /\ HasThreat(2)
    /\ errors = 1

\* C20: a notification that is not delivered, or not even emitted, leaves
\* the persisted threat, the counts and the course of the call as they are
\* with a notification that is delivered.
C20_NotificationFailureChangesNothing ==
    [][(JustHandled /\ Last.notify \in {"delivery_fails", "emit_fails"}) =>
          LET quiet == Effect([Last EXCEPT !.notify = "delivered"]) IN
            /\ threats' = quiet.threats
            /\ articles_collected' = quiet.articles_collected
            /\ articles_processed' = quiet.articles_processed
            /\ errors' = quiet.errors
            /\ Len(threats') = Len(threats) + 1
            /\ feed_left' > 0 => cf_pc' = "articles"
            /\ cf_pc' # "raised"]_vars

\* The call returned after one notification could not be emitted and one
\* could not be delivered: both threats are there and both articles count.
C20_Witness ==
    /\ cf_pc = "returned"
    /\ Len(handled) = 2
    /\ Case(1).notify = "emit_fails"
    /\ Case(2).notify = "delivery_fails"
    /\ Len(threats) = 2
    /\ Len(tasks) = 1
    /\ cf_result = [articles_collected |-> 2, articles_processed |-> 2, errors |-> 0]

--------------------------------------------------------------------------
(* Claims about update_threat_statuses *)

Was(t) == last_update.before[t]
AgeThen(t) == last_update.at - Was(t).created_at
Rank(status) ==
    CASE status = "active" -> 1 [] status = "monitoring" -> 2 [] OTHER -> 3

\* C21: one update_threat_statuses call sets to monitoring every active
\* record whose age from created_at is at least 7 days and to resolved every
\* monitoring record whose age is at least 30 days, and leaves the active
\* records younger than 7 days and the monitoring records younger than 30
\* days as they are.
C21_AdvanceAtCutoff ==
    last_update.ret = "returned" =>
        \A t \in ThreatIds :
            /\ (Was(t).status = "active" /\ AgeThen(t) >= monitoring_days)
                  => threat_rows[t].status = "monitoring"
            /\ (Was(t).status = "monitoring" /\ AgeThen(t) >= resolved_days)
                  => threat_rows[t].status = "resolved"
            /\ (Was(t).status = "active" /\ AgeThen(t) < monitoring_days)
                  => threat_rows[t] = Was(t)
            /\ (Was(t).status = "monitoring" /\ AgeThen(t) < resolved_days)
                  => threat_rows[t] = Was(t)

\* C21, as the code has it: the cutoffs are strict.  An active record
\* becomes monitoring when its age is more than 7 days, a monitoring record
\* becomes resolved when its age is more than 30 days, and a record whose
\* age is exactly 7 or exactly 30 days is left as it is, like every younger
\* one and every resolved one.
C21_AdvancePastCutoff ==
    last_update.ret = "returned" =>
        \A t \in ThreatIds :
            /\ (Was(t).status = "active" /\ AgeThen(t) > monitoring_days)
                  => threat_rows[t] = [Was(t) EXCEPT !.status = "monitoring"]
            /\ (Was(t).status = "monitoring" /\ AgeThen(t) > resolved_days)
                  => threat_rows[t] = [Was(t) EXCEPT !.status = "resolved"]
            /\ (Was(t).status = "active" /\ AgeThen(t) <= monitoring_days)
                  => threat_rows[t] = Was(t)
            /\ (Was(t).status = "monitoring" /\ AgeThen(t) <= resolved_days)
                  => threat_rows[t] = Was(t)
            /\ Was(t).status = "resolved" => threat_rows[t] = Was(t)

\* A call found an active record 8 days old and made it monitoring, and
\* left an active record exactly 7 days old active.
C21_Witness ==
    /\ last_update.ret = "returned"
    /\ \E t \in ThreatIds :
          /\ Was(t).status = "active"
          /\ AgeThen(t) = monitoring_days + 1
          /\ threat_rows[t].status = "monitoring"
    /\ \E t \in ThreatIds :
          /\ Was(t).status = "active"
          /\ AgeThen(t) = monitoring_days
          /\ threat_rows[t].status = "active"

\* C22: no update_threat_statuses call moves a record backward in the
\* order active, monitoring, resolved; a resolved record stays resolved.
C22_StatusMovesForward ==
    [][\A t \in ThreatIds :
          Rank(threat_rows'[t].status) >= Rank(threat_rows[t].status)]_vars

\* A call made a monitoring record resolved and left a record that was
\* resolved, and older than both cutoffs, resolved.
C22_Witness ==
    /\ last_update.ret = "returned"
    /\ \E t \in ThreatIds :
          /\ Was(t).status = "monitoring"
          /\ threat_rows[t].status = "resolved"
    /\ \E t \in ThreatIds :
          /\ Was(t).status = "resolved"
          /\ AgeThen(t) > resolved_days
          /\ threat_rows[t].status = "resolved"

\* C23: every persisted threat has a severity from 1 to 10, a confidence
\* score from 0 to 1 (0 to 100 hundredths), a relevance from 0 to 100, a
\* category among the six values and a status among the three, whatever the
\* assessment carries.
C23_PersistedValuesInRange ==
    \A t \in 1..Len(threats) :
        /\ threats[t].severity \in 1..10
        /\ threats[t].confidence_score \in 0..100
        /\ threats[t].missionary_relevance \in 0..100
        /\ threats[t].category \in ThreatCategoryValues
        /\ threats[t].status \in ThreatStatusValues

--------------------------------------------------------------------------
(* Claims about classify_threat *)

IsSet(d, key) == key \in d.fields /\ key \notin d.nulls

\* C24: classify_threat leaves every one of severity, category and
\* missionary_relevance that its input has set (present and not None) as it
\* is, and a second call on its own result changes nothing.
C24_SetFieldsKeptAndIdempotent ==
    /\ td_calls >= 1 =>
          \A key \in ClassifiedKeys :
              IsSet(td_given, key)
                  => IsSet(threat_data, key) /\ threat_data[key] = td_given[key]
    /\ td_calls >= 2 => threat_data = td_prev

\* Two calls were made on a dict whose severity was set, whose category was
\* None and whose relevance was missing, with a text that has keywords of
\* all three tables; the first call filled the two unset keys.
C24_Witness ==
    /\ td_calls = 2
    /\ IsSet(td_given, "severity")
    /\ "category" \in td_given.nulls
    /\ "missionary_relevance" \notin td_given.fields
    /\ {"critical", "protest", "church"} \subseteq td_text
    /\ threat_data.severity = 4
    /\ threat_data.category = "political_unrest"
    /\ threat_data.missionary_relevance = 15

--------------------------------------------------------------------------
(* Claims about the steps of _process_article *)

\* the assessment of entry k as classify_threat would be given it
AsThreatData(d) ==
    [fields |-> d.fields, nulls |-> {}, severity |-> d.severity,
     category |-> d.category, missionary_relevance |-> d.missionary_relevance]
Enriched(k) ==
    ClassifyThreat(AsThreatData(Case(k).analysis.value), Case(k).analysis.text)

\* C25: for every article the steps run in the order fetch, analyze,
\* classify_threat, threshold filter, geolocate, persist, notify: the filter
\* judges the assessment after classify_threat has filled the keys the
\* analysis left unset, so an assessed article has a row exactly when the
\* filled-in severity is at least 2 and the filled-in relevance at least 20
\* (and the store takes the row).
C25_FilterJudgesEnrichedValues ==
    \A k \in Entries :
        (Assessed(k) /\ Case(k).store # "fails") =>
            (HasThreat(k) <=>
                (Enriched(k).severity >= 2 /\ Enriched(k).missionary_relevance >= 20))

--------------------------------------------------------------------------
(* Claims about the collectors *)

\* the text selector i extracts from the page
RuleText(i) == Strip(ElementsFrom(ex_page, i, 1))
Fetches == ex_fetch = "text" /\ ex_parse = "ok"

\* C26: extract_article_content tries the selectors in their order and
\* returns the text of the first selector that yields non-empty text; it
\* returns None when no selector yields text or when the fetch fails.
C26_FirstRuleWithText ==
    ex_pc = "returned" =>
        IF Fetches /\ \E i \in Rules : RuleText(i) # <<>>
          THEN LET first == CHOOSE i \in Rules :
                                /\ RuleText(i) # <<>>
                                /\ \A h \in 1..(i - 1) : RuleText(h) = <<>>
               IN ex_result = [kind |-> "str", content |-> RuleText(first)]
          ELSE ex_result = NoContent

\* C27: collect() reads the feed first and scrapes the listing page only
\* when the feed gave no articles; it returns a list of at most max_articles
\* articles and never raises; the list is empty when neither the feed nor
\* the page gave an article; and every listed article is in the result,
\* with an empty content when its body could not be fetched.
C27_FeedFirstThenPage ==
    /\ col_page # NotCalled => col_feed = ListOf(<<>>)
    /\ col_feed = NotCalled => col_pc = "start"
    /\ col_pc = "returned" =>
          /\ col_result.kind = "list"
          /\ Len(col_result.articles) <= max_articles
          /\ (col_feed \in {ListOf(<<>>), Raised}
                  /\ col_page \in {ListOf(<<>>), Raised, NotCalled})
                => col_result.articles = <<>>
          /\ (col_feed # Raised /\ col_page # Raised) =>
                LET listed == IF col_page = NotCalled THEN col_feed.articles
                              ELSE col_page.articles
                IN
                  /\ Len(col_result.articles) = Len(listed)
                  /\ \A i \in 1..Len(listed) :
                        /\ col_result.articles[i].origin = listed[i].origin
                        /\ col_result.articles[i].entry = listed[i].entry
                        /\ col_result.articles[i].content =
                              (IF col_bodies[i] = "text" THEN "text" ELSE "")

\* The feed gave nothing, the page listed two articles, the body of the
\* first could not be fetched, and both articles were returned.
C27_Witness ==
    /\ col_pc = "returned"
    /\ col_feed = ListOf(<<>>)
    /\ col_page.kind = "list"
    /\ Len(col_result.articles) = 2
    /\ col_bodies = <<"None", "text">>
    /\ col_result.articles[1].content = ""
    /\ col_result.articles[2].content = "text"

--------------------------------------------------------------------------
(* Claims about the order of the work in a sweep *)

\* the collect_from_source calls sweep i has started
StartedCollects(i) == SumOver(collects[i], SourceIds)

\* C28: within a sweep the sources are handled one after another:
\* collect_from_source for a source starts only when every earlier call of
\* the sweep has returned, and at no time are two collect_from_source calls
\* of the manager under way.
C28_SourcesOneAfterAnother ==
    /\ Cardinality({i \in Invocations : inv[i].pc = "collecting"}) <= 1
    /\ \A i \in Invocations :
          /\ inv[i].pc = "collecting" => StartedCollects(i) = inv[i].nresults + 1
          /\ inv[i].pc = "sleeping" => StartedCollects(i) = inv[i].nresults

\* A sweep is collecting its second source, the call for its first source
\* having returned, while another call of run_collection was turned away.
C28_Witness ==
    \E i \in Invocations, h \in Invocations :
        /\ inv[i].pc = "collecting"
        /\ inv[i].nresults = 1
        /\ StartedCollects(i) = 2
        /\ inv[h].report.status = "already_running"

Count(calls, name) == Cardinality({i \in 1..Len(calls) : calls[i] = name})
TasksFor(k) == Cardinality({i \in 1..Len(tasks) : tasks[i].article = k})

\* C29: analyze_article is called exactly once for every article whose
\* body was fetched (and whose title was read) and for no other; exactly
\* one notification is attempted for every article that has a row, which
\* leaves one task unless creating it failed, and none is attempted for an
\* article that was rejected or whose processing failed.
C29_OneAnalysisOneNotification ==
    \A k \in Entries :
        /\ Count(handled[k].calls, "analyze_article") =
              (IF Case(k).link /\ Case(k).fetch = "text" /\ Case(k).extract = "ok"
                 THEN 1 ELSE 0)
        /\ Count(handled[k].calls, "broadcast_new_threat") =
              (IF HasThreat(k) THEN 1 ELSE 0)
        /\ TasksFor(k) =
              (IF HasThreat(k) /\ Case(k).notify # "emit_fails" THEN 1 ELSE 0)

\* Two articles were fetched and analyzed once each: the first was
\* rejected by the filter and has no notification, the second has its row
\* and its one notification task.
C29_Witness ==
    /\ Len(handled) = 2
    /\ Assessed(1) /\ ~HasThreat(1)
    /\ Count(handled[1].calls, "analyze_article") = 1
    /\ TasksFor(1) = 0
    /\ HasThreat(2)
    /\ Count(handled[2].calls, "analyze_article") = 1
    /\ TasksFor(2) = 1

--------------------------------------------------------------------------
(* Claims about get_geolocation *)

\* what json.loads is given of the answer, when the engine answered
Answered == json_str(geo_behaviour.text)
IsNumber(v) == v = "51.5"
CoordinatesObject ==
    /\ geo_behaviour.b = "response_text"
    /\ Answered.k = "obj"
    /\ {"latitude", "longitude"} \subseteq Answered.v.fields
    /\ IsNumber(Answered.v.latitude)
    /\ IsNumber(Answered.v.longitude)

\* C30: get_geolocation never raises, and it returns (None, None) whenever
\* the engine is unreachable, times out or answers with something that is
\* not an object with a latitude and a longitude.
C30_NullUnlessCoordinates ==
    /\ geo_pc \in {"start", "requesting", "returned"}
    /\ (geo_pc = "returned" /\ ~CoordinatesObject)
          => (geo_result.latitude = "None" /\ geo_result.longitude = "None")

--------------------------------------------------------------------------
(* Claims about the heuristics of classify_threat *)

\* the tiers with a keyword in the text
TiersMatched == {l \in {9, 7, 5, 3} : severity_keywords[l] \cap td_text # {}}
Overlap(c) == Cardinality(category_keywords[c] \cap td_text)
Position(c) == CHOOSE i \in 1..Len(ThreatCategoryOrder) : ThreatCategoryOrder[i] = c

\* C31: when severity is unset, classify_threat sets it to the level of the
\* highest tier (9, 7, 5, 3) that has a keyword in the text, and to 1 when
\* no tier has one.
C31_HighestTierMatched ==
    (td_calls >= 1 /\ ~IsSet(td_given, "severity")) =>
        /\ IsSet(threat_data, "severity")
        /\ threat_data.severity =
              (IF TiersMatched = {} THEN 1
               ELSE CHOOSE l \in TiersMatched : \A m \in TiersMatched : m <= l)

\* A dict without severity and a text with a keyword of tier 9 and one of
\* tier 3 was classified, and its severity is 9.
C31_Witness ==
    /\ td_calls >= 1
    /\ "severity" \notin td_given.fields
    /\ {"critical", "reported"} \subseteq td_text
    /\ threat_data.severity = 9

\* C32: when category is unset, classify_threat sets it to the category
\* with the largest number of keywords in the text, the one declared first
\* among those with that number when it is positive, and to
\* security_incident when no category has a keyword in the text.
C32_FirstLargestOverlap ==
    (td_calls >= 1 /\ ~IsSet(td_given, "category")) =>
        /\ IsSet(threat_data, "category")
        /\ IF \A c \in ThreatCategoryValues : Overlap(c) = 0
             THEN threat_data.category = "security_incident"
             ELSE /\ \A c \in ThreatCategoryValues : Overlap(c) <= Overlap(threat_data.category)
                  /\ \A c \in ThreatCategoryValues :
                        Overlap(c) = Overlap(threat_data.category)
                            => Position(threat_data.category) <= Position(c)

\* A dict whose category was None was classified on a text with one keyword
\* each of political_unrest, weather_emergency and security_incident, and
\* its category is political_unrest, the first of the three.
C32_Witness ==
    /\ td_calls >= 1
    /\ "category" \in td_given.nulls
    /\ td_text \cap {"protest", "flood", "attack", "bomb"} = {"protest", "flood", "attack"}
    /\ threat_data.category = "political_unrest"

--------------------------------------------------------------------------
(* Claims about the running flag and the reports of run_collection *)

\* call i returns already_running in this step
TurnedAwayNow(i) ==
    /\ inv[i].pc = "idle"
    /\ inv'[i].pc = "returned"
    /\ inv'[i].report.status = "already_running"

\* C33: a run_collection call that is turned away as already_running
\* changes nothing: the running flag stays set, and no last_collected_at,
\* no last_collection_time, no count of collect_from_source calls, no
\* threat record and no other call of run_collection is changed.
C33_TurnedAwayChangesNothing ==
    [][\A i \in Invocations :
          TurnedAwayNow(i) =>
              /\ running /\ running'
              /\ db_sources' = db_sources
              /\ last_collection_time' = last_collection_time
              /\ collects' = collects
              /\ threats' = threats
              /\ \A h \in Invocations \ {i} : inv'[h] = inv[h]]_vars

\* A call was turned away while a sweep was collecting, and the flag is
\* still set.
C33_Witness ==
    \E i \in Invocations, h \in Invocations :
        /\ inv[i].report.status = "already_running"
        /\ inv[h].pc = "collecting"
        /\ inv[i].during = h
        /\ running

\* C34: every run_collection call that started a sweep eventually returns
\* with running = false, however the sweep ends (completed, error,
\* cancellation), and running is set only while a sweep is suspended in
\* collect_from_source or in its sleep: a call made after a sweep has
\* returned is not turned away because of that sweep.
C34_SweepLeavesIdle ==
    /\ \A i \in Invocations :
          InFlight(i) ~> (inv[i].pc = "returned" /\ ~running)
    /\ [](running => \E i \in Invocations : InFlight(i))

\* A sweep was cancelled and a call made after it started a sweep of its
\* own.
C34_Witness ==
    \E i \in Invocations, h \in Invocations :
        /\ inv[i].report.status = "cancelled"
        /\ i < h
        /\ InFlight(h)

\* the collect_from_source call of sweep i ends in this step
AttemptEnds(i) ==
    /\ inv[i].pc = "collecting"
    /\ inv'[i].pc # "collecting"
AttemptedSource(i) == Head(inv[i].todo).id

\* C35: when the attempt of a sweep on a source ends, however it ends,
\* last_collected_at of the source is set to the time of the attempt (so
\* that a sweep without source_id started less than collection_frequency
\* later skips the source).
C35_AttemptStampsSource ==
    [][\A i \in Invocations :
          AttemptEnds(i) =>
              /\ db_sources'[AttemptedSource(i)].last_collected_at = utcnow
              /\ Skipped([id |-> AttemptedSource(i),
                          last_collected_at |-> db_sources'[AttemptedSource(i)].last_collected_at],
                         None)]_vars

\* the sum of a field over the entries of a list of results
RECURSIVE SumOf(_, _)
SumOf(field, entries) ==
    IF entries = <<>> THEN 0
    ELSE Head(entries)[field] + SumOf(field, Tail(entries))
\* The sources the query of lines 393-399 lists for call i; is_active is
\* not written by a sweep.
ListedBy(i) ==
    {s \in SourceIds : /\ db_sources[s].is_active
                       /\ inv[i].source_id \in {None, s}}
CompletedNow(i) == inv[i].pc = "returned" /\ inv[i].report.status = "completed"
\* the counts of a completed report against its source_results
CountsAgree(report) ==
    /\ report.sources_processed = Len(report.source_results.entries)
    /\ \A field \in {"articles_collected", "articles_processed", "errors"} :
          report[field] = SumOf(field, report.source_results.entries)
\* The sweep of call i is the last one started: no later call has forgotten
\* what it reached.
LastSweep(i) == \A h \in Invocations : h > i => inv[h].pc = "idle" \/ inv[h].during = i

--------------------------------------------------------------------------
(* Claims about repeated update_threat_statuses calls *)

\* C37: one update_threat_statuses call moves a record by at most one
\* status: a record that is active before the call is not resolved after
\* it, whatever its age.
C37_OneStepPerCall ==
    [][\A t \in ThreatIds :
          /\ Rank(threat_rows'[t].status) <= Rank(threat_rows[t].status) + 1
          /\ threat_rows[t].status = "active" => threat_rows'[t].status # "resolved"]_vars

\* A call has just returned that found an active record older than 30 days
\* and left it monitoring.
C37_Witness ==
    \E t \in ThreatIds :
        /\ last_update.ret = "returned"
        /\ Was(t).status = "active"
        /\ AgeThen(t) > resolved_days
        /\ threat_rows[t].status = "monitoring"
        /\ last_update.updated_to_resolved = 0

Age(t) == today - threat_rows[t].created_at
\* this step is a call that returns, and the call before it returned too
SecondReturn ==
    /\ today' = today
    /\ last_update.ret = "returned"
    /\ last_update'.ret = "returned"

\* C38: when update_threat_statuses is called again and again, every
\* record older than 30 days becomes resolved; a record that was older than
\* 30 days at a call that returned is resolved when the next call returns,
\* so an active one is resolved after two calls.
C38_OldRecordsGetResolved ==
    /\ \A t \in ThreatIds :
          (Age(t) > resolved_days) ~> (threat_rows[t].status = "resolved")
    /\ [][\A t \in ThreatIds :
            (SecondReturn /\ AgeThen(t) > resolved_days) =>
                threat_rows'[t].status = "resolved"]_vars

\* A record older than 30 days was active before one call, monitoring
\* before the next, and is resolved.
C38_Witness ==
    \E t \in ThreatIds :
        /\ last_update.ret = "returned"
        /\ last_update.earlier # <<>>
        /\ last_update.earlier[t].status = "active"
        /\ last_update.earlier[t].created_at < FirstDay - resolved_days
        /\ Was(t).status = "monitoring"
        /\ threat_rows[t].status = "resolved"

--------------------------------------------------------------------------
(* Claims about the connection manager *)

\* how a websocket_endpoint call that has ended ended
HandlerEnded == {"refused", "unwelcomed", "disconnected", "failed"}

\* C39: the connections in active_connections are the keys of
\* client_subscriptions, and a connection whose handler has ended (the
\* client disconnected, an error, the welcome message could not be sent)
\* is in neither.
C39_RegisteredWhileHandled ==
    /\ Elements(active_connections) = Keys(client_subscriptions)
    /\ \A w \in Sockets :
          ws_pc[w] \in HandlerEnded =>
              /\ w \notin Elements(active_connections)
              /\ w \notin Keys(client_subscriptions)

\* C40: when a broadcast is over, it has sent to every client that was
\* subscribed to its topic (or to "all") when it started, whether or not a
\* send failed and whatever other clients did meanwhile.
C40_BroadcastReachesSubscribers ==
    bc.pc \in {"returned", "raised"} => bc.owed = {}

==========================================================================
